---- MODULE Spec2Model ----
(***************************************************************************)
(* A model of drone-stm32-map: the SVD pipeline of the svd crate           *)
(* (svd/src/lib.rs: variant selection, parsing, the per-variant patch      *)
(* programs, the copy_reg / copy_field patch operations, emission) and the *)
(* GPIO port schema of src/periph/gpio/lib.rs (the periph! description of  *)
(* a generic port, the map_gpio_port! macro and its instantiations).       *)
(*                                                                         *)
(* Four specifications share the module:                                   *)
(*   Spec        the build script: runs of generate_regs / generate_rest   *)
(*   SpecSchema  the expansion of the GPIO schema under one cfg value      *)
(*   SpecOps     copy_reg and copy_field applied to small Devices          *)
(*   SpecTwice   a variant's patch program applied and then applied again  *)
(*   SpecBand    two port owners writing their bits of the enable register  *)
(***************************************************************************)
EXTENDS Integers, Sequences, FiniteSets, TLC

VARIABLES
  \* ---- the environment of the build script
  addMode,     \* how the Device library adds an entity whose name is taken
  mcu,         \* CARGO_CFG_STM32_MCU
  outDirSet,   \* whether OUT_DIR is set
  svdState,    \* the state of the vendor file of the selected variant
  files,       \* the output directory: file name -> contents, or Absent
  \* ---- one run of generate_regs / generate_rest
  runs,        \* runs started so far
  pc,          \* position of the current run
  op,          \* "regs" or "rest"
  pool,        \* <<pool_number, pool_size>>
  dev,         \* the Device held by the run, or NoDevice
  stepIx,      \* patch steps completed
  result,      \* "running", "ok" or the error the run returned
  parsedLog,   \* SVD files parsed by this run, in order
  createdLog,  \* output files created by this run, in order
  emitLog,     \* emitter calls of this run, in order
  produced,    \* per successful run, its input, patched Device and artifacts
  \* ---- expansion of the GPIO schema
  sKey,        \* the cfg value stm32_mcu the crate is compiled with
  sIx,         \* map_gpio_port! invocations processed
  sTokens,     \* the port token sets defined so far, in order
  \* ---- patch operations on a small Device
  oDev,        \* the Device
  oLast,       \* the last operation: its arguments, the Device before, the outcome
  oCount,      \* operations applied
  \* ---- a patch program applied twice
  tKey,        \* the variant
  tDev,        \* the Device
  tIx,         \* steps completed in the current pass
  tPass,       \* completed passes
  tRes,        \* "running", "ok" or the error of the failing step
  \* ---- two port owners writing their enable bits
  bKey,        \* the variant
  bPorts,      \* the two map_gpio_port! invocations that define the owners
  bWord0,      \* the enable register before the writes: field -> bit
  bWord,       \* the enable register
  bOwn         \* per owner: position, the bit value it writes, the word it loaded

pipeVars   == << mcu, outDirSet, svdState, files, runs, pc, op, pool,
                 dev, stepIx, result, parsedLog, createdLog, emitLog, produced >>
schemaVars == << sKey, sIx, sTokens >>
opsVars    == << oDev, oLast, oCount >>
twiceVars  == << tKey, tDev, tIx, tPass, tRes >>
bandVars   == << bKey, bPorts, bWord0, bWord, bOwn >>
vars       == << addMode, pipeVars, schemaVars, opsVars, twiceVars, bandVars >>

(***************************************************************************)
(* The GPIO port schema (src/periph/gpio/lib.rs).                           *)
(***************************************************************************)
\* The cfg of an item without a #[cfg] attribute: it is compiled under every
\* value of stm32_mcu.
AnyMcu == { "*" }

\* The guard written with all(..) in place of any(..).
CfgHoldsAll(cfg, key) == cfg = AnyMcu \/ cfg = { key }

CfgHolds(cfg, key) == cfg = AnyMcu \/ key \in cfg

\* periph! { pub struct GpioPortPeriph; ... }: per register its block, name, cfg,
\* register kind, the Shared and Option markers, and its fields with their kinds.
GpioPortPeriph ==
  << [block |-> "RCC", name |-> "BUSENR", kind |-> "RwRegBitBand", shared |-> TRUE, option |-> FALSE,
      cfg |-> AnyMcu,
      fields |-> << <<"GPIOEN", "RwRwRegFieldBitBand">> >>],
     [block |-> "RCC", name |-> "BUSRSTR", kind |-> "RwRegBitBand", shared |-> TRUE, option |-> FALSE,
      cfg |-> AnyMcu,
      fields |-> << <<"GPIORST", "RwRwRegFieldBitBand">> >>],
     [block |-> "RCC", name |-> "BUSSMENR", kind |-> "RwRegBitBand", shared |-> TRUE, option |-> FALSE,
      cfg |-> { "stm32f401", "stm32f405", "stm32f407", "stm32f410", "stm32f411", "stm32f412",
                 "stm32f413", "stm32f427", "stm32f429", "stm32f446", "stm32f469", "stm32l4x1",
                 "stm32l4x2", "stm32l4x3", "stm32l4x5", "stm32l4x6", "stm32l4r5", "stm32l4r7",
                 "stm32l4r9", "stm32l4s5", "stm32l4s7", "stm32l4s9" },
      fields |-> << <<"GPIOSMEN", "RwRwRegFieldBitBand">> >>],
     [block |-> "GPIO", name |-> "AFRL", kind |-> "RwReg", shared |-> FALSE, option |-> FALSE,
      cfg |-> { "stm32f401", "stm32f405", "stm32f407", "stm32f410", "stm32f411", "stm32f412",
                 "stm32f413", "stm32f427", "stm32f429", "stm32f446", "stm32f469", "stm32l4x1",
                 "stm32l4x2", "stm32l4x3", "stm32l4x5", "stm32l4x6", "stm32l4r5", "stm32l4r7",
                 "stm32l4r9", "stm32l4s5", "stm32l4s7", "stm32l4s9" },
      fields |-> << <<"AFRL0", "RwRwRegFieldBits">>, <<"AFRL1", "RwRwRegFieldBits">>,
              <<"AFRL2", "RwRwRegFieldBits">>, <<"AFRL3", "RwRwRegFieldBits">>,
              <<"AFRL4", "RwRwRegFieldBits">>, <<"AFRL5", "RwRwRegFieldBits">>,
              <<"AFRL6", "RwRwRegFieldBits">>, <<"AFRL7", "RwRwRegFieldBits">> >>],
     [block |-> "GPIO", name |-> "AFRH", kind |-> "RwReg", shared |-> FALSE, option |-> FALSE,
      cfg |-> { "stm32f401", "stm32f405", "stm32f407", "stm32f410", "stm32f411", "stm32f412",
                 "stm32f413", "stm32f427", "stm32f429", "stm32f446", "stm32f469", "stm32l4x1",
                 "stm32l4x2", "stm32l4x3", "stm32l4x5", "stm32l4x6", "stm32l4r5", "stm32l4r7",
                 "stm32l4r9", "stm32l4s5", "stm32l4s7", "stm32l4s9" },
      fields |-> << <<"AFRH8", "RwRwRegFieldBits">>, <<"AFRH9", "RwRwRegFieldBits">>,
              <<"AFRH10", "RwRwRegFieldBits">>, <<"AFRH11", "RwRwRegFieldBits">>,
              <<"AFRH12", "RwRwRegFieldBits">>, <<"AFRH13", "RwRwRegFieldBits">>,
              <<"AFRH14", "RwRwRegFieldBits">>, <<"AFRH15", "RwRwRegFieldBits">> >>],
     [block |-> "GPIO", name |-> "ASCR", kind |-> "RwReg", shared |-> FALSE, option |-> TRUE,
      cfg |-> { "stm32l4x5", "stm32l4x6" },
      fields |-> << <<"ASC0", "RwRwRegFieldBit">>, <<"ASC1", "RwRwRegFieldBit">>,
              <<"ASC2", "RwRwRegFieldBit">>, <<"ASC3", "RwRwRegFieldBit">>,
              <<"ASC4", "RwRwRegFieldBit">>, <<"ASC5", "RwRwRegFieldBit">>,
              <<"ASC6", "RwRwRegFieldBit">>, <<"ASC7", "RwRwRegFieldBit">>,
              <<"ASC8", "RwRwRegFieldBit">>, <<"ASC9", "RwRwRegFieldBit">>,
              <<"ASC10", "RwRwRegFieldBit">>, <<"ASC11", "RwRwRegFieldBit">>,
              <<"ASC12", "RwRwRegFieldBit">>, <<"ASC13", "RwRwRegFieldBit">>,
              <<"ASC14", "RwRwRegFieldBit">>, <<"ASC15", "RwRwRegFieldBit">> >>],
     [block |-> "GPIO", name |-> "BRR", kind |-> "WoReg", shared |-> FALSE, option |-> FALSE,
      cfg |-> { "stm32f100", "stm32f101", "stm32f102", "stm32f103", "stm32f107", "stm32l4x6",
                 "stm32l4r5", "stm32l4r7", "stm32l4r9", "stm32l4s5", "stm32l4s7", "stm32l4s9" },
      fields |-> << <<"BR0", "WoWoRegFieldBit">>, <<"BR1", "WoWoRegFieldBit">>,
              <<"BR2", "WoWoRegFieldBit">>, <<"BR3", "WoWoRegFieldBit">>,
              <<"BR4", "WoWoRegFieldBit">>, <<"BR5", "WoWoRegFieldBit">>,
              <<"BR6", "WoWoRegFieldBit">>, <<"BR7", "WoWoRegFieldBit">>,
              <<"BR8", "WoWoRegFieldBit">>, <<"BR9", "WoWoRegFieldBit">>,
              <<"BR10", "WoWoRegFieldBit">>, <<"BR11", "WoWoRegFieldBit">>,
              <<"BR12", "WoWoRegFieldBit">>, <<"BR13", "WoWoRegFieldBit">>,
              <<"BR14", "WoWoRegFieldBit">>, <<"BR15", "WoWoRegFieldBit">> >>],
     [block |-> "GPIO", name |-> "BSRR", kind |-> "WoReg", shared |-> FALSE, option |-> FALSE,
      cfg |-> AnyMcu,
      fields |-> << <<"BR0", "WoWoRegFieldBit">>, <<"BR1", "WoWoRegFieldBit">>,
              <<"BR2", "WoWoRegFieldBit">>, <<"BR3", "WoWoRegFieldBit">>,
              <<"BR4", "WoWoRegFieldBit">>, <<"BR5", "WoWoRegFieldBit">>,
              <<"BR6", "WoWoRegFieldBit">>, <<"BR7", "WoWoRegFieldBit">>,
              <<"BR8", "WoWoRegFieldBit">>, <<"BR9", "WoWoRegFieldBit">>,
              <<"BR10", "WoWoRegFieldBit">>, <<"BR11", "WoWoRegFieldBit">>,
              <<"BR12", "WoWoRegFieldBit">>, <<"BR13", "WoWoRegFieldBit">>,
              <<"BR14", "WoWoRegFieldBit">>, <<"BR15", "WoWoRegFieldBit">>,
              <<"BS0", "WoWoRegFieldBit">>, <<"BS1", "WoWoRegFieldBit">>,
              <<"BS2", "WoWoRegFieldBit">>, <<"BS3", "WoWoRegFieldBit">>,
              <<"BS4", "WoWoRegFieldBit">>, <<"BS5", "WoWoRegFieldBit">>,
              <<"BS6", "WoWoRegFieldBit">>, <<"BS7", "WoWoRegFieldBit">>,
              <<"BS8", "WoWoRegFieldBit">>, <<"BS9", "WoWoRegFieldBit">>,
              <<"BS10", "WoWoRegFieldBit">>, <<"BS11", "WoWoRegFieldBit">>,
              <<"BS12", "WoWoRegFieldBit">>, <<"BS13", "WoWoRegFieldBit">>,
              <<"BS14", "WoWoRegFieldBit">>, <<"BS15", "WoWoRegFieldBit">> >>],
     [block |-> "GPIO", name |-> "CRL", kind |-> "RwReg", shared |-> FALSE, option |-> FALSE,
      cfg |-> { "stm32f100", "stm32f101", "stm32f102", "stm32f103", "stm32f107" },
      fields |-> << <<"CNF0", "RwRwRegFieldBits">>, <<"CNF1", "RwRwRegFieldBits">>,
              <<"CNF2", "RwRwRegFieldBits">>, <<"CNF3", "RwRwRegFieldBits">>,
              <<"CNF4", "RwRwRegFieldBits">>, <<"CNF5", "RwRwRegFieldBits">>,
              <<"CNF6", "RwRwRegFieldBits">>, <<"CNF7", "RwRwRegFieldBits">>,
              <<"MODE0", "RwRwRegFieldBits">>, <<"MODE1", "RwRwRegFieldBits">>,
              <<"MODE2", "RwRwRegFieldBits">>, <<"MODE3", "RwRwRegFieldBits">>,
              <<"MODE4", "RwRwRegFieldBits">>, <<"MODE5", "RwRwRegFieldBits">>,
              <<"MODE6", "RwRwRegFieldBits">>, <<"MODE7", "RwRwRegFieldBits">> >>],
     [block |-> "GPIO", name |-> "CRH", kind |-> "RwReg", shared |-> FALSE, option |-> FALSE,
      cfg |-> { "stm32f100", "stm32f101", "stm32f102", "stm32f103", "stm32f107" },
      fields |-> << <<"CNF8", "RwRwRegFieldBits">>, <<"CNF9", "RwRwRegFieldBits">>,
              <<"CNF10", "RwRwRegFieldBits">>, <<"CNF11", "RwRwRegFieldBits">>,
              <<"CNF12", "RwRwRegFieldBits">>, <<"CNF13", "RwRwRegFieldBits">>,
              <<"CNF14", "RwRwRegFieldBits">>, <<"CNF15", "RwRwRegFieldBits">>,
              <<"MODE8", "RwRwRegFieldBits">>, <<"MODE9", "RwRwRegFieldBits">>,
              <<"MODE10", "RwRwRegFieldBits">>, <<"MODE11", "RwRwRegFieldBits">>,
              <<"MODE12", "RwRwRegFieldBits">>, <<"MODE13", "RwRwRegFieldBits">>,
              <<"MODE14", "RwRwRegFieldBits">>, <<"MODE15", "RwRwRegFieldBits">> >>],
     [block |-> "GPIO", name |-> "IDR", kind |-> "RoReg", shared |-> FALSE, option |-> FALSE,
      cfg |-> AnyMcu,
      fields |-> << <<"IDR0", "RoRoRegFieldBit">>, <<"IDR1", "RoRoRegFieldBit">>,
              <<"IDR2", "RoRoRegFieldBit">>, <<"IDR3", "RoRoRegFieldBit">>,
              <<"IDR4", "RoRoRegFieldBit">>, <<"IDR5", "RoRoRegFieldBit">>,
              <<"IDR6", "RoRoRegFieldBit">>, <<"IDR7", "RoRoRegFieldBit">>,
              <<"IDR8", "RoRoRegFieldBit">>, <<"IDR9", "RoRoRegFieldBit">>,
              <<"IDR10", "RoRoRegFieldBit">>, <<"IDR11", "RoRoRegFieldBit">>,
              <<"IDR12", "RoRoRegFieldBit">>, <<"IDR13", "RoRoRegFieldBit">>,
              <<"IDR14", "RoRoRegFieldBit">>, <<"IDR15", "RoRoRegFieldBit">> >>],
     [block |-> "GPIO", name |-> "LCKR", kind |-> "RwReg", shared |-> FALSE, option |-> FALSE,
      cfg |-> AnyMcu,
      fields |-> << <<"LCK0", "RwRwRegFieldBit">>, <<"LCK1", "RwRwRegFieldBit">>,
              <<"LCK2", "RwRwRegFieldBit">>, <<"LCK3", "RwRwRegFieldBit">>,
              <<"LCK4", "RwRwRegFieldBit">>, <<"LCK5", "RwRwRegFieldBit">>,
              <<"LCK6", "RwRwRegFieldBit">>, <<"LCK7", "RwRwRegFieldBit">>,
              <<"LCK8", "RwRwRegFieldBit">>, <<"LCK9", "RwRwRegFieldBit">>,
              <<"LCK10", "RwRwRegFieldBit">>, <<"LCK11", "RwRwRegFieldBit">>,
              <<"LCK12", "RwRwRegFieldBit">>, <<"LCK13", "RwRwRegFieldBit">>,
              <<"LCK14", "RwRwRegFieldBit">>, <<"LCK15", "RwRwRegFieldBit">>,
              <<"LCKK", "RwRwRegFieldBit">> >>],
     [block |-> "GPIO", name |-> "MODER", kind |-> "RwReg", shared |-> FALSE, option |-> FALSE,
      cfg |-> { "stm32f401", "stm32f405", "stm32f407", "stm32f410", "stm32f411", "stm32f412",
                 "stm32f413", "stm32f427", "stm32f429", "stm32f446", "stm32f469", "stm32l4x1",
                 "stm32l4x2", "stm32l4x3", "stm32l4x5", "stm32l4x6", "stm32l4r5", "stm32l4r7",
                 "stm32l4r9", "stm32l4s5", "stm32l4s7", "stm32l4s9" },
      fields |-> << <<"MODER0", "RwRwRegFieldBits">>, <<"MODER1", "RwRwRegFieldBits">>,
              <<"MODER2", "RwRwRegFieldBits">>, <<"MODER3", "RwRwRegFieldBits">>,
              <<"MODER4", "RwRwRegFieldBits">>, <<"MODER5", "RwRwRegFieldBits">>,
              <<"MODER6", "RwRwRegFieldBits">>, <<"MODER7", "RwRwRegFieldBits">>,
              <<"MODER8", "RwRwRegFieldBits">>, <<"MODER9", "RwRwRegFieldBits">>,
              <<"MODER10", "RwRwRegFieldBits">>, <<"MODER11", "RwRwRegFieldBits">>,
              <<"MODER12", "RwRwRegFieldBits">>, <<"MODER13", "RwRwRegFieldBits">>,
              <<"MODER14", "RwRwRegFieldBits">>, <<"MODER15", "RwRwRegFieldBits">> >>],
     [block |-> "GPIO", name |-> "ODR", kind |-> "RwReg", shared |-> FALSE, option |-> FALSE,
      cfg |-> AnyMcu,
      fields |-> << <<"ODR0", "RwRwRegFieldBit">>, <<"ODR1", "RwRwRegFieldBit">>,
              <<"ODR2", "RwRwRegFieldBit">>, <<"ODR3", "RwRwRegFieldBit">>,
              <<"ODR4", "RwRwRegFieldBit">>, <<"ODR5", "RwRwRegFieldBit">>,
              <<"ODR6", "RwRwRegFieldBit">>, <<"ODR7", "RwRwRegFieldBit">>,
              <<"ODR8", "RwRwRegFieldBit">>, <<"ODR9", "RwRwRegFieldBit">>,
              <<"ODR10", "RwRwRegFieldBit">>, <<"ODR11", "RwRwRegFieldBit">>,
              <<"ODR12", "RwRwRegFieldBit">>, <<"ODR13", "RwRwRegFieldBit">>,
              <<"ODR14", "RwRwRegFieldBit">>, <<"ODR15", "RwRwRegFieldBit">> >>],
     [block |-> "GPIO", name |-> "OSPEEDR", kind |-> "RwReg", shared |-> FALSE, option |-> FALSE,
      cfg |-> { "stm32f401", "stm32f405", "stm32f407", "stm32f410", "stm32f411", "stm32f412",
                 "stm32f413", "stm32f427", "stm32f429", "stm32f446", "stm32f469", "stm32l4x1",
                 "stm32l4x2", "stm32l4x3", "stm32l4x5", "stm32l4x6", "stm32l4r5", "stm32l4r7",
                 "stm32l4r9", "stm32l4s5", "stm32l4s7", "stm32l4s9" },
      fields |-> << <<"OSPEEDR0", "RwRwRegFieldBits">>, <<"OSPEEDR1", "RwRwRegFieldBits">>,
              <<"OSPEEDR2", "RwRwRegFieldBits">>, <<"OSPEEDR3", "RwRwRegFieldBits">>,
              <<"OSPEEDR4", "RwRwRegFieldBits">>, <<"OSPEEDR5", "RwRwRegFieldBits">>,
              <<"OSPEEDR6", "RwRwRegFieldBits">>, <<"OSPEEDR7", "RwRwRegFieldBits">>,
              <<"OSPEEDR8", "RwRwRegFieldBits">>, <<"OSPEEDR9", "RwRwRegFieldBits">>,
              <<"OSPEEDR10", "RwRwRegFieldBits">>, <<"OSPEEDR11", "RwRwRegFieldBits">>,
              <<"OSPEEDR12", "RwRwRegFieldBits">>, <<"OSPEEDR13", "RwRwRegFieldBits">>,
              <<"OSPEEDR14", "RwRwRegFieldBits">>, <<"OSPEEDR15", "RwRwRegFieldBits">> >>],
     [block |-> "GPIO", name |-> "OTYPER", kind |-> "RwReg", shared |-> FALSE, option |-> FALSE,
      cfg |-> { "stm32f401", "stm32f405", "stm32f407", "stm32f410", "stm32f411", "stm32f412",
                 "stm32f413", "stm32f427", "stm32f429", "stm32f446", "stm32f469", "stm32l4x1",
                 "stm32l4x2", "stm32l4x3", "stm32l4x5", "stm32l4x6", "stm32l4r5", "stm32l4r7",
                 "stm32l4r9", "stm32l4s5", "stm32l4s7", "stm32l4s9" },
      fields |-> << <<"OT0", "RwRwRegFieldBit">>, <<"OT1", "RwRwRegFieldBit">>,
              <<"OT2", "RwRwRegFieldBit">>, <<"OT3", "RwRwRegFieldBit">>,
              <<"OT4", "RwRwRegFieldBit">>, <<"OT5", "RwRwRegFieldBit">>,
              <<"OT6", "RwRwRegFieldBit">>, <<"OT7", "RwRwRegFieldBit">>,
              <<"OT8", "RwRwRegFieldBit">>, <<"OT9", "RwRwRegFieldBit">>,
              <<"OT10", "RwRwRegFieldBit">>, <<"OT11", "RwRwRegFieldBit">>,
              <<"OT12", "RwRwRegFieldBit">>, <<"OT13", "RwRwRegFieldBit">>,
              <<"OT14", "RwRwRegFieldBit">>, <<"OT15", "RwRwRegFieldBit">> >>],
     [block |-> "GPIO", name |-> "PUPDR", kind |-> "RwReg", shared |-> FALSE, option |-> FALSE,
      cfg |-> { "stm32f401", "stm32f405", "stm32f407", "stm32f410", "stm32f411", "stm32f412",
                 "stm32f413", "stm32f427", "stm32f429", "stm32f446", "stm32f469", "stm32l4x1",
                 "stm32l4x2", "stm32l4x3", "stm32l4x5", "stm32l4x6", "stm32l4r5", "stm32l4r7",
                 "stm32l4r9", "stm32l4s5", "stm32l4s7", "stm32l4s9" },
      fields |-> << <<"PUPDR0", "RwRwRegFieldBits">>, <<"PUPDR1", "RwRwRegFieldBits">>,
              <<"PUPDR2", "RwRwRegFieldBits">>, <<"PUPDR3", "RwRwRegFieldBits">>,
              <<"PUPDR4", "RwRwRegFieldBits">>, <<"PUPDR5", "RwRwRegFieldBits">>,
              <<"PUPDR6", "RwRwRegFieldBits">>, <<"PUPDR7", "RwRwRegFieldBits">>,
              <<"PUPDR8", "RwRwRegFieldBits">>, <<"PUPDR9", "RwRwRegFieldBits">>,
              <<"PUPDR10", "RwRwRegFieldBits">>, <<"PUPDR11", "RwRwRegFieldBits">>,
              <<"PUPDR12", "RwRwRegFieldBits">>, <<"PUPDR13", "RwRwRegFieldBits">>,
              <<"PUPDR14", "RwRwRegFieldBits">>, <<"PUPDR15", "RwRwRegFieldBits">> >>] >>

\* macro_rules! map_gpio_port: the registers the macro maps for the invocation inst,
\* each with its cfg, the register it is mapped to and the field mapping. ASCR is
\* mapped only when the invocation passes it.
map_gpio_port(inst) ==
  << [block |-> "RCC", name |-> "BUSENR", to |-> inst.busenr, shared |-> TRUE, option |-> FALSE,
      mapped |-> TRUE,
      cfg |-> AnyMcu,
      fields |-> << <<"GPIOEN", inst.gpioen>> >>],
     [block |-> "RCC", name |-> "BUSRSTR", to |-> inst.busrstr, shared |-> TRUE, option |-> FALSE,
      mapped |-> TRUE,
      cfg |-> AnyMcu,
      fields |-> << <<"GPIORST", inst.gpiorst>> >>],
     [block |-> "RCC", name |-> "BUSSMENR", to |-> inst.bussmenr, shared |-> TRUE, option |-> FALSE,
      mapped |-> TRUE,
      cfg |-> { "stm32f401", "stm32f405", "stm32f407", "stm32f410", "stm32f411", "stm32f412",
                 "stm32f413", "stm32f427", "stm32f429", "stm32f446", "stm32f469", "stm32l4x1",
                 "stm32l4x2", "stm32l4x3", "stm32l4x5", "stm32l4x6", "stm32l4r5", "stm32l4r7",
                 "stm32l4r9", "stm32l4s5", "stm32l4s7", "stm32l4s9" },
      fields |-> << <<"GPIOSMEN", inst.gpiosmen>> >>],
     [block |-> "GPIO", name |-> "AFRL", to |-> "AFRL", shared |-> FALSE, option |-> FALSE,
      mapped |-> TRUE,
      cfg |-> { "stm32f401", "stm32f405", "stm32f407", "stm32f410", "stm32f411", "stm32f412",
                 "stm32f413", "stm32f427", "stm32f429", "stm32f446", "stm32f469", "stm32l4x1",
                 "stm32l4x2", "stm32l4x3", "stm32l4x5", "stm32l4x6", "stm32l4r5", "stm32l4r7",
                 "stm32l4r9", "stm32l4s5", "stm32l4s7", "stm32l4s9" },
      fields |-> << <<"AFRL0", "AFRL0">>, <<"AFRL1", "AFRL1">>, <<"AFRL2", "AFRL2">>,
              <<"AFRL3", "AFRL3">>, <<"AFRL4", "AFRL4">>, <<"AFRL5", "AFRL5">>,
              <<"AFRL6", "AFRL6">>, <<"AFRL7", "AFRL7">> >>],
     [block |-> "GPIO", name |-> "AFRH", to |-> "AFRH", shared |-> FALSE, option |-> FALSE,
      mapped |-> TRUE,
      cfg |-> { "stm32f401", "stm32f405", "stm32f407", "stm32f410", "stm32f411", "stm32f412",
                 "stm32f413", "stm32f427", "stm32f429", "stm32f446", "stm32f469", "stm32l4x1",
                 "stm32l4x2", "stm32l4x3", "stm32l4x5", "stm32l4x6", "stm32l4r5", "stm32l4r7",
                 "stm32l4r9", "stm32l4s5", "stm32l4s7", "stm32l4s9" },
      fields |-> << <<"AFRH8", "AFRH8">>, <<"AFRH9", "AFRH9">>, <<"AFRH10", "AFRH10">>,
              <<"AFRH11", "AFRH11">>, <<"AFRH12", "AFRH12">>, <<"AFRH13", "AFRH13">>,
              <<"AFRH14", "AFRH14">>, <<"AFRH15", "AFRH15">> >>],
     [block |-> "GPIO", name |-> "ASCR", to |-> IF inst.ascr = << >> THEN "" ELSE inst.ascr[1], shared |-> FALSE, option |-> TRUE,
      mapped |-> inst.ascr # << >>,
      cfg |-> { "stm32l4x5", "stm32l4x6" },
      fields |-> << <<"ASC0", "ASC0">>, <<"ASC1", "ASC1">>, <<"ASC2", "ASC2">>, <<"ASC3", "ASC3">>,
              <<"ASC4", "ASC4">>, <<"ASC5", "ASC5">>, <<"ASC6", "ASC6">>, <<"ASC7", "ASC7">>,
              <<"ASC8", "ASC8">>, <<"ASC9", "ASC9">>, <<"ASC10", "ASC10">>, <<"ASC11", "ASC11">>,
              <<"ASC12", "ASC12">>, <<"ASC13", "ASC13">>, <<"ASC14", "ASC14">>,
              <<"ASC15", "ASC15">> >>],
     [block |-> "GPIO", name |-> "BRR", to |-> "BRR", shared |-> FALSE, option |-> FALSE,
      mapped |-> TRUE,
      cfg |-> { "stm32f100", "stm32f101", "stm32f102", "stm32f103", "stm32f107", "stm32l4x6",
                 "stm32l4r5", "stm32l4r7", "stm32l4r9", "stm32l4s5", "stm32l4s7", "stm32l4s9" },
      fields |-> << <<"BR0", "BR0">>, <<"BR1", "BR1">>, <<"BR2", "BR2">>, <<"BR3", "BR3">>,
              <<"BR4", "BR4">>, <<"BR5", "BR5">>, <<"BR6", "BR6">>, <<"BR7", "BR7">>,
              <<"BR8", "BR8">>, <<"BR9", "BR9">>, <<"BR10", "BR10">>, <<"BR11", "BR11">>,
              <<"BR12", "BR12">>, <<"BR13", "BR13">>, <<"BR14", "BR14">>, <<"BR15", "BR15">> >>],
     [block |-> "GPIO", name |-> "BSRR", to |-> "BSRR", shared |-> FALSE, option |-> FALSE,
      mapped |-> TRUE,
      cfg |-> AnyMcu,
      fields |-> << <<"BR0", "BR0">>, <<"BR1", "BR1">>, <<"BR2", "BR2">>, <<"BR3", "BR3">>,
              <<"BR4", "BR4">>, <<"BR5", "BR5">>, <<"BR6", "BR6">>, <<"BR7", "BR7">>,
              <<"BR8", "BR8">>, <<"BR9", "BR9">>, <<"BR10", "BR10">>, <<"BR11", "BR11">>,
              <<"BR12", "BR12">>, <<"BR13", "BR13">>, <<"BR14", "BR14">>, <<"BR15", "BR15">>,
              <<"BS0", "BS0">>, <<"BS1", "BS1">>, <<"BS2", "BS2">>, <<"BS3", "BS3">>,
              <<"BS4", "BS4">>, <<"BS5", "BS5">>, <<"BS6", "BS6">>, <<"BS7", "BS7">>,
              <<"BS8", "BS8">>, <<"BS9", "BS9">>, <<"BS10", "BS10">>, <<"BS11", "BS11">>,
              <<"BS12", "BS12">>, <<"BS13", "BS13">>, <<"BS14", "BS14">>, <<"BS15", "BS15">> >>],
     [block |-> "GPIO", name |-> "CRL", to |-> "CRL", shared |-> FALSE, option |-> FALSE,
      mapped |-> TRUE,
      cfg |-> { "stm32f100", "stm32f101", "stm32f102", "stm32f103", "stm32f107" },
      fields |-> << <<"CNF0", "CNF0">>, <<"CNF1", "CNF1">>, <<"CNF2", "CNF2">>, <<"CNF3", "CNF3">>,
              <<"CNF4", "CNF4">>, <<"CNF5", "CNF5">>, <<"CNF6", "CNF6">>, <<"CNF7", "CNF7">>,
              <<"MODE0", "MODE0">>, <<"MODE1", "MODE1">>, <<"MODE2", "MODE2">>,
              <<"MODE3", "MODE3">>, <<"MODE4", "MODE4">>, <<"MODE5", "MODE5">>,
              <<"MODE6", "MODE6">>, <<"MODE7", "MODE7">> >>],
     [block |-> "GPIO", name |-> "CRH", to |-> "CRH", shared |-> FALSE, option |-> FALSE,
      mapped |-> TRUE,
      cfg |-> { "stm32f100", "stm32f101", "stm32f102", "stm32f103", "stm32f107" },
      fields |-> << <<"CNF8", "CNF8">>, <<"CNF9", "CNF9">>, <<"CNF10", "CNF10">>, <<"CNF11", "CNF11">>,
              <<"CNF12", "CNF12">>, <<"CNF13", "CNF13">>, <<"CNF14", "CNF14">>,
              <<"CNF15", "CNF15">>, <<"MODE8", "MODE8">>, <<"MODE9", "MODE9">>,
              <<"MODE10", "MODE10">>, <<"MODE11", "MODE11">>, <<"MODE12", "MODE12">>,
              <<"MODE13", "MODE13">>, <<"MODE14", "MODE14">>, <<"MODE15", "MODE15">> >>],
     [block |-> "GPIO", name |-> "IDR", to |-> "IDR", shared |-> FALSE, option |-> FALSE,
      mapped |-> TRUE,
      cfg |-> AnyMcu,
      fields |-> << <<"IDR0", "IDR0">>, <<"IDR1", "IDR1">>, <<"IDR2", "IDR2">>, <<"IDR3", "IDR3">>,
              <<"IDR4", "IDR4">>, <<"IDR5", "IDR5">>, <<"IDR6", "IDR6">>, <<"IDR7", "IDR7">>,
              <<"IDR8", "IDR8">>, <<"IDR9", "IDR9">>, <<"IDR10", "IDR10">>, <<"IDR11", "IDR11">>,
              <<"IDR12", "IDR12">>, <<"IDR13", "IDR13">>, <<"IDR14", "IDR14">>,
              <<"IDR15", "IDR15">> >>],
     [block |-> "GPIO", name |-> "LCKR", to |-> "LCKR", shared |-> FALSE, option |-> FALSE,
      mapped |-> TRUE,
      cfg |-> AnyMcu,
      fields |-> << <<"LCK0", "LCK0">>, <<"LCK1", "LCK1">>, <<"LCK2", "LCK2">>, <<"LCK3", "LCK3">>,
              <<"LCK4", "LCK4">>, <<"LCK5", "LCK5">>, <<"LCK6", "LCK6">>, <<"LCK7", "LCK7">>,
              <<"LCK8", "LCK8">>, <<"LCK9", "LCK9">>, <<"LCK10", "LCK10">>, <<"LCK11", "LCK11">>,
              <<"LCK12", "LCK12">>, <<"LCK13", "LCK13">>, <<"LCK14", "LCK14">>,
              <<"LCK15", "LCK15">>, <<"LCKK", "LCKK">> >>],
     [block |-> "GPIO", name |-> "MODER", to |-> "MODER", shared |-> FALSE, option |-> FALSE,
      mapped |-> TRUE,
      cfg |-> { "stm32f401", "stm32f405", "stm32f407", "stm32f410", "stm32f411", "stm32f412",
                 "stm32f413", "stm32f427", "stm32f429", "stm32f446", "stm32f469", "stm32l4x1",
                 "stm32l4x2", "stm32l4x3", "stm32l4x5", "stm32l4x6", "stm32l4r5", "stm32l4r7",
                 "stm32l4r9", "stm32l4s5", "stm32l4s7", "stm32l4s9" },
      fields |-> << <<"MODER0", "MODER0">>, <<"MODER1", "MODER1">>, <<"MODER2", "MODER2">>,
              <<"MODER3", "MODER3">>, <<"MODER4", "MODER4">>, <<"MODER5", "MODER5">>,
              <<"MODER6", "MODER6">>, <<"MODER7", "MODER7">>, <<"MODER8", "MODER8">>,
              <<"MODER9", "MODER9">>, <<"MODER10", "MODER10">>, <<"MODER11", "MODER11">>,
              <<"MODER12", "MODER12">>, <<"MODER13", "MODER13">>, <<"MODER14", "MODER14">>,
              <<"MODER15", "MODER15">> >>],
     [block |-> "GPIO", name |-> "ODR", to |-> "ODR", shared |-> FALSE, option |-> FALSE,
      mapped |-> TRUE,
      cfg |-> AnyMcu,
      fields |-> << <<"ODR0", "ODR0">>, <<"ODR1", "ODR1">>, <<"ODR2", "ODR2">>, <<"ODR3", "ODR3">>,
              <<"ODR4", "ODR4">>, <<"ODR5", "ODR5">>, <<"ODR6", "ODR6">>, <<"ODR7", "ODR7">>,
              <<"ODR8", "ODR8">>, <<"ODR9", "ODR9">>, <<"ODR10", "ODR10">>, <<"ODR11", "ODR11">>,
              <<"ODR12", "ODR12">>, <<"ODR13", "ODR13">>, <<"ODR14", "ODR14">>,
              <<"ODR15", "ODR15">> >>],
     [block |-> "GPIO", name |-> "OSPEEDR", to |-> "OSPEEDR", shared |-> FALSE, option |-> FALSE,
      mapped |-> TRUE,
      cfg |-> { "stm32f401", "stm32f405", "stm32f407", "stm32f410", "stm32f411", "stm32f412",
                 "stm32f413", "stm32f427", "stm32f429", "stm32f446", "stm32f469", "stm32l4x1",
                 "stm32l4x2", "stm32l4x3", "stm32l4x5", "stm32l4x6", "stm32l4r5", "stm32l4r7",
                 "stm32l4r9", "stm32l4s5", "stm32l4s7", "stm32l4s9" },
      fields |-> << <<"OSPEEDR0", "OSPEEDR0">>, <<"OSPEEDR1", "OSPEEDR1">>, <<"OSPEEDR2", "OSPEEDR2">>,
              <<"OSPEEDR3", "OSPEEDR3">>, <<"OSPEEDR4", "OSPEEDR4">>, <<"OSPEEDR5", "OSPEEDR5">>,
              <<"OSPEEDR6", "OSPEEDR6">>, <<"OSPEEDR7", "OSPEEDR7">>, <<"OSPEEDR8", "OSPEEDR8">>,
              <<"OSPEEDR9", "OSPEEDR9">>, <<"OSPEEDR10", "OSPEEDR10">>,
              <<"OSPEEDR11", "OSPEEDR11">>, <<"OSPEEDR12", "OSPEEDR12">>,
              <<"OSPEEDR13", "OSPEEDR13">>, <<"OSPEEDR14", "OSPEEDR14">>,
              <<"OSPEEDR15", "OSPEEDR15">> >>],
     [block |-> "GPIO", name |-> "OTYPER", to |-> "OTYPER", shared |-> FALSE, option |-> FALSE,
      mapped |-> TRUE,
      cfg |-> { "stm32f401", "stm32f405", "stm32f407", "stm32f410", "stm32f411", "stm32f412",
                 "stm32f413", "stm32f427", "stm32f429", "stm32f446", "stm32f469", "stm32l4x1",
                 "stm32l4x2", "stm32l4x3", "stm32l4x5", "stm32l4x6", "stm32l4r5", "stm32l4r7",
                 "stm32l4r9", "stm32l4s5", "stm32l4s7", "stm32l4s9" },
      fields |-> << <<"OT0", "OT0">>, <<"OT1", "OT1">>, <<"OT2", "OT2">>, <<"OT3", "OT3">>,
              <<"OT4", "OT4">>, <<"OT5", "OT5">>, <<"OT6", "OT6">>, <<"OT7", "OT7">>,
              <<"OT8", "OT8">>, <<"OT9", "OT9">>, <<"OT10", "OT10">>, <<"OT11", "OT11">>,
              <<"OT12", "OT12">>, <<"OT13", "OT13">>, <<"OT14", "OT14">>, <<"OT15", "OT15">> >>],
     [block |-> "GPIO", name |-> "PUPDR", to |-> "PUPDR", shared |-> FALSE, option |-> FALSE,
      mapped |-> TRUE,
      cfg |-> { "stm32f401", "stm32f405", "stm32f407", "stm32f410", "stm32f411", "stm32f412",
                 "stm32f413", "stm32f427", "stm32f429", "stm32f446", "stm32f469", "stm32l4x1",
                 "stm32l4x2", "stm32l4x3", "stm32l4x5", "stm32l4x6", "stm32l4r5", "stm32l4r7",
                 "stm32l4r9", "stm32l4s5", "stm32l4s7", "stm32l4s9" },
      fields |-> << <<"PUPDR0", "PUPDR0">>, <<"PUPDR1", "PUPDR1">>, <<"PUPDR2", "PUPDR2">>,
              <<"PUPDR3", "PUPDR3">>, <<"PUPDR4", "PUPDR4">>, <<"PUPDR5", "PUPDR5">>,
              <<"PUPDR6", "PUPDR6">>, <<"PUPDR7", "PUPDR7">>, <<"PUPDR8", "PUPDR8">>,
              <<"PUPDR9", "PUPDR9">>, <<"PUPDR10", "PUPDR10">>, <<"PUPDR11", "PUPDR11">>,
              <<"PUPDR12", "PUPDR12">>, <<"PUPDR13", "PUPDR13">>, <<"PUPDR14", "PUPDR14">>,
              <<"PUPDR15", "PUPDR15">> >>] >>

\* The invocations of map_gpio_port!, in source order, each under its #[cfg].
GpioA_F1 ==
  [cfg |-> { "stm32f100", "stm32f101", "stm32f102", "stm32f103", "stm32f107" },
   port_macro |-> "periph_gpio_a", port_ty |-> "GpioA", busenr |-> "APB2ENR",
   busrstr |-> "APB2RSTR", bussmenr |-> "APB2SMENR", gpio |-> "GPIOA", gpioen |-> "IOPAEN",
   gpiorst |-> "IOPARST", gpiosmen |-> "IOPASMEN",
   ascr |-> << >>]

\* The invocation for port B copied from port A's with the type and the macro
\* renamed and the peripheral block and RCC fields left as they were.
GpioB_F1_FromPortA ==
  [cfg |-> { "stm32f100", "stm32f101", "stm32f102", "stm32f103", "stm32f107" },
   port_macro |-> "periph_gpio_b", port_ty |-> "GpioB", busenr |-> "APB2ENR",
   busrstr |-> "APB2RSTR", bussmenr |-> "APB2SMENR", gpio |-> "GPIOA", gpioen |-> "IOPAEN",
   gpiorst |-> "IOPARST", gpiosmen |-> "IOPASMEN",
   ascr |-> << >>]

GpioB_F1 ==
  [cfg |-> { "stm32f100", "stm32f101", "stm32f102", "stm32f103", "stm32f107" },
   port_macro |-> "periph_gpio_b", port_ty |-> "GpioB", busenr |-> "APB2ENR",
   busrstr |-> "APB2RSTR", bussmenr |-> "APB2SMENR", gpio |-> "GPIOB", gpioen |-> "IOPBEN",
   gpiorst |-> "IOPBRST", gpiosmen |-> "IOPBSMEN",
   ascr |-> << >>]

\* The invocation for port C with stm32f102 left out of its cfg.
GpioC_F1_WithoutF102 ==
  [cfg |-> { "stm32f100", "stm32f101", "stm32f103", "stm32f107" },
   port_macro |-> "periph_gpio_c", port_ty |-> "GpioC", busenr |-> "APB2ENR",
   busrstr |-> "APB2RSTR", bussmenr |-> "APB2SMENR", gpio |-> "GPIOC", gpioen |-> "IOPCEN",
   gpiorst |-> "IOPCRST", gpiosmen |-> "IOPCSMEN",
   ascr |-> << >>]

GpioC_F1 ==
  [cfg |-> { "stm32f100", "stm32f101", "stm32f102", "stm32f103", "stm32f107" },
   port_macro |-> "periph_gpio_c", port_ty |-> "GpioC", busenr |-> "APB2ENR",
   busrstr |-> "APB2RSTR", bussmenr |-> "APB2SMENR", gpio |-> "GPIOC", gpioen |-> "IOPCEN",
   gpiorst |-> "IOPCRST", gpiosmen |-> "IOPCSMEN",
   ascr |-> << >>]

GpioD_F1 ==
  [cfg |-> { "stm32f100", "stm32f101", "stm32f102", "stm32f103", "stm32f107" },
   port_macro |-> "periph_gpio_d", port_ty |-> "GpioD", busenr |-> "APB2ENR",
   busrstr |-> "APB2RSTR", bussmenr |-> "APB2SMENR", gpio |-> "GPIOD", gpioen |-> "IOPDEN",
   gpiorst |-> "IOPDRST", gpiosmen |-> "IOPDSMEN",
   ascr |-> << >>]

GpioE_F1 ==
  [cfg |-> { "stm32f100", "stm32f101", "stm32f103", "stm32f107" },
   port_macro |-> "periph_gpio_e", port_ty |-> "GpioE", busenr |-> "APB2ENR",
   busrstr |-> "APB2RSTR", bussmenr |-> "APB2SMENR", gpio |-> "GPIOE", gpioen |-> "IOPEEN",
   gpiorst |-> "IOPERST", gpiosmen |-> "IOPESMEN",
   ascr |-> << >>]

GpioF_F1 ==
  [cfg |-> { "stm32f100", "stm32f101", "stm32f103" },
   port_macro |-> "periph_gpio_f", port_ty |-> "GpioF", busenr |-> "APB2ENR",
   busrstr |-> "APB2RSTR", bussmenr |-> "APB2SMENR", gpio |-> "GPIOF", gpioen |-> "IOPFEN",
   gpiorst |-> "IOPFRST", gpiosmen |-> "IOPFSMEN",
   ascr |-> << >>]

GpioG_F1 ==
  [cfg |-> { "stm32f100", "stm32f101", "stm32f103" },
   port_macro |-> "periph_gpio_g", port_ty |-> "GpioG", busenr |-> "APB2ENR",
   busrstr |-> "APB2RSTR", bussmenr |-> "APB2SMENR", gpio |-> "GPIOG", gpioen |-> "IOPGEN",
   gpiorst |-> "IOPGRST", gpiosmen |-> "IOPGSMEN",
   ascr |-> << >>]

GpioA_L4 ==
  [cfg |-> { "stm32l4x1", "stm32l4x2", "stm32l4x3", "stm32l4x5", "stm32l4x6", "stm32l4r5",
             "stm32l4r7", "stm32l4r9", "stm32l4s5", "stm32l4s7", "stm32l4s9" },
   port_macro |-> "periph_gpio_a", port_ty |-> "GpioA", busenr |-> "AHB2ENR",
   busrstr |-> "AHB2RSTR", bussmenr |-> "AHB2SMENR", gpio |-> "GPIOA", gpioen |-> "GPIOAEN",
   gpiorst |-> "GPIOARST", gpiosmen |-> "GPIOASMEN",
   ascr |-> << "ASCR" >>]

GpioB_L4 ==
  [cfg |-> { "stm32l4x1", "stm32l4x2", "stm32l4x3", "stm32l4x5", "stm32l4x6", "stm32l4r5",
             "stm32l4r7", "stm32l4r9", "stm32l4s5", "stm32l4s7", "stm32l4s9" },
   port_macro |-> "periph_gpio_b", port_ty |-> "GpioB", busenr |-> "AHB2ENR",
   busrstr |-> "AHB2RSTR", bussmenr |-> "AHB2SMENR", gpio |-> "GPIOB", gpioen |-> "GPIOBEN",
   gpiorst |-> "GPIOBRST", gpiosmen |-> "GPIOBSMEN",
   ascr |-> << "ASCR" >>]

\* The invocation for port C naming port B's enable bit.
GpioC_L4_EnableOfB ==
  [cfg |-> { "stm32l4x1", "stm32l4x2", "stm32l4x3", "stm32l4x5", "stm32l4x6", "stm32l4r5",
             "stm32l4r7", "stm32l4r9", "stm32l4s5", "stm32l4s7", "stm32l4s9" },
   port_macro |-> "periph_gpio_c", port_ty |-> "GpioC", busenr |-> "AHB2ENR",
   busrstr |-> "AHB2RSTR", bussmenr |-> "AHB2SMENR", gpio |-> "GPIOC", gpioen |-> "GPIOBEN",
   gpiorst |-> "GPIOCRST", gpiosmen |-> "GPIOCSMEN",
   ascr |-> << "ASCR" >>]

GpioC_L4 ==
  [cfg |-> { "stm32l4x1", "stm32l4x2", "stm32l4x3", "stm32l4x5", "stm32l4x6", "stm32l4r5",
             "stm32l4r7", "stm32l4r9", "stm32l4s5", "stm32l4s7", "stm32l4s9" },
   port_macro |-> "periph_gpio_c", port_ty |-> "GpioC", busenr |-> "AHB2ENR",
   busrstr |-> "AHB2RSTR", bussmenr |-> "AHB2SMENR", gpio |-> "GPIOC", gpioen |-> "GPIOCEN",
   gpiorst |-> "GPIOCRST", gpiosmen |-> "GPIOCSMEN",
   ascr |-> << "ASCR" >>]

GpioD_L4 ==
  [cfg |-> { "stm32l4x1", "stm32l4x2", "stm32l4x3", "stm32l4x5", "stm32l4x6", "stm32l4r5",
             "stm32l4r7", "stm32l4r9", "stm32l4s5", "stm32l4s7", "stm32l4s9" },
   port_macro |-> "periph_gpio_d", port_ty |-> "GpioD", busenr |-> "AHB2ENR",
   busrstr |-> "AHB2RSTR", bussmenr |-> "AHB2SMENR", gpio |-> "GPIOD", gpioen |-> "GPIODEN",
   gpiorst |-> "GPIODRST", gpiosmen |-> "GPIODSMEN",
   ascr |-> << "ASCR" >>]

GpioE_L4 ==
  [cfg |-> { "stm32l4x1", "stm32l4x2", "stm32l4x3", "stm32l4x5", "stm32l4x6", "stm32l4r5",
             "stm32l4r7", "stm32l4r9", "stm32l4s5", "stm32l4s7", "stm32l4s9" },
   port_macro |-> "periph_gpio_e", port_ty |-> "GpioE", busenr |-> "AHB2ENR",
   busrstr |-> "AHB2RSTR", bussmenr |-> "AHB2SMENR", gpio |-> "GPIOE", gpioen |-> "GPIOEEN",
   gpiorst |-> "GPIOERST", gpiosmen |-> "GPIOESMEN",
   ascr |-> << "ASCR" >>]

GpioF_L4 ==
  [cfg |-> { "stm32l4x5", "stm32l4x6", "stm32l4r5", "stm32l4r7", "stm32l4r9", "stm32l4s5",
             "stm32l4s7", "stm32l4s9" },
   port_macro |-> "periph_gpio_f", port_ty |-> "GpioF", busenr |-> "AHB2ENR",
   busrstr |-> "AHB2RSTR", bussmenr |-> "AHB2SMENR", gpio |-> "GPIOF", gpioen |-> "GPIOFEN",
   gpiorst |-> "GPIOFRST", gpiosmen |-> "GPIOFSMEN",
   ascr |-> << "ASCR" >>]

GpioG_L4 ==
  [cfg |-> { "stm32l4x5", "stm32l4x6", "stm32l4r5", "stm32l4r7", "stm32l4r9", "stm32l4s5",
             "stm32l4s7", "stm32l4s9" },
   port_macro |-> "periph_gpio_g", port_ty |-> "GpioG", busenr |-> "AHB2ENR",
   busrstr |-> "AHB2RSTR", bussmenr |-> "AHB2SMENR", gpio |-> "GPIOG", gpioen |-> "GPIOGEN",
   gpiorst |-> "GPIOGRST", gpiosmen |-> "GPIOGSMEN",
   ascr |-> << "ASCR" >>]

GpioH_L4 ==
  [cfg |-> { "stm32l4x1", "stm32l4x2", "stm32l4x3", "stm32l4x5", "stm32l4x6", "stm32l4r5",
             "stm32l4r7", "stm32l4r9", "stm32l4s5", "stm32l4s7", "stm32l4s9" },
   port_macro |-> "periph_gpio_h", port_ty |-> "GpioH", busenr |-> "AHB2ENR",
   busrstr |-> "AHB2RSTR", bussmenr |-> "AHB2SMENR", gpio |-> "GPIOH", gpioen |-> "GPIOHEN",
   gpiorst |-> "GPIOHRST", gpiosmen |-> "GPIOHSMEN",
   ascr |-> << "ASCR" >>]

\* The L4 invocation for port I passing ASCR as ports A to H do.
GpioI_L4_WithAscr ==
  [cfg |-> { "stm32l4x6", "stm32l4r5", "stm32l4r7", "stm32l4r9", "stm32l4s5", "stm32l4s7",
             "stm32l4s9" },
   port_macro |-> "periph_gpio_i", port_ty |-> "GpioI", busenr |-> "AHB2ENR",
   busrstr |-> "AHB2RSTR", bussmenr |-> "AHB2SMENR", gpio |-> "GPIOI", gpioen |-> "GPIOIEN",
   gpiorst |-> "GPIOIRST", gpiosmen |-> "GPIOISMEN",
   ascr |-> << "ASCR" >>]

GpioI_L4 ==
  [cfg |-> { "stm32l4x6", "stm32l4r5", "stm32l4r7", "stm32l4r9", "stm32l4s5", "stm32l4s7",
             "stm32l4s9" },
   port_macro |-> "periph_gpio_i", port_ty |-> "GpioI", busenr |-> "AHB2ENR",
   busrstr |-> "AHB2RSTR", bussmenr |-> "AHB2SMENR", gpio |-> "GPIOI", gpioen |-> "GPIOIEN",
   gpiorst |-> "GPIOIRST", gpiosmen |-> "GPIOISMEN",
   ascr |-> << >>]

\* The F4 invocation for port A with one key of the L4 family in its guard.
GpioA_F4_AlsoL4x1 ==
  [cfg |-> { "stm32f401", "stm32f405", "stm32f407", "stm32f410", "stm32f411", "stm32f412",
             "stm32f413", "stm32f427", "stm32f429", "stm32f446", "stm32f469", "stm32l4x1" },
   port_macro |-> "periph_gpio_a", port_ty |-> "GpioA", busenr |-> "AHB1ENR",
   busrstr |-> "AHB1RSTR", bussmenr |-> "AHB1LPENR", gpio |-> "GPIOA", gpioen |-> "GPIOAEN",
   gpiorst |-> "GPIOARST", gpiosmen |-> "GPIOALPEN",
   ascr |-> << >>]

GpioA_F4 ==
  [cfg |-> { "stm32f401", "stm32f405", "stm32f407", "stm32f410", "stm32f411", "stm32f412",
             "stm32f413", "stm32f427", "stm32f429", "stm32f446", "stm32f469" },
   port_macro |-> "periph_gpio_a", port_ty |-> "GpioA", busenr |-> "AHB1ENR",
   busrstr |-> "AHB1RSTR", bussmenr |-> "AHB1LPENR", gpio |-> "GPIOA", gpioen |-> "GPIOAEN",
   gpiorst |-> "GPIOARST", gpiosmen |-> "GPIOALPEN",
   ascr |-> << >>]

GpioB_F4 ==
  [cfg |-> { "stm32f401", "stm32f405", "stm32f407", "stm32f410", "stm32f411", "stm32f412",
             "stm32f413", "stm32f427", "stm32f429", "stm32f446", "stm32f469" },
   port_macro |-> "periph_gpio_b", port_ty |-> "GpioB", busenr |-> "AHB1ENR",
   busrstr |-> "AHB1RSTR", bussmenr |-> "AHB1LPENR", gpio |-> "GPIOB", gpioen |-> "GPIOBEN",
   gpiorst |-> "GPIOBRST", gpiosmen |-> "GPIOBLPEN",
   ascr |-> << >>]

GpioC_F4 ==
  [cfg |-> { "stm32f401", "stm32f405", "stm32f407", "stm32f410", "stm32f411", "stm32f412",
             "stm32f413", "stm32f427", "stm32f429", "stm32f446", "stm32f469" },
   port_macro |-> "periph_gpio_c", port_ty |-> "GpioC", busenr |-> "AHB1ENR",
   busrstr |-> "AHB1RSTR", bussmenr |-> "AHB1LPENR", gpio |-> "GPIOC", gpioen |-> "GPIOCEN",
   gpiorst |-> "GPIOCRST", gpiosmen |-> "GPIOCLPEN",
   ascr |-> << >>]

\* The invocation for port D naming the peripheral block of port C.
GpioD_F4_BlockOfC ==
  [cfg |-> { "stm32f401", "stm32f405", "stm32f407", "stm32f411", "stm32f412", "stm32f413",
             "stm32f427", "stm32f429", "stm32f446", "stm32f469" },
   port_macro |-> "periph_gpio_d", port_ty |-> "GpioD", busenr |-> "AHB1ENR",
   busrstr |-> "AHB1RSTR", bussmenr |-> "AHB1LPENR", gpio |-> "GPIOC", gpioen |-> "GPIODEN",
   gpiorst |-> "GPIODRST", gpiosmen |-> "GPIODLPEN",
   ascr |-> << >>]

GpioD_F4 ==
  [cfg |-> { "stm32f401", "stm32f405", "stm32f407", "stm32f411", "stm32f412", "stm32f413",
             "stm32f427", "stm32f429", "stm32f446", "stm32f469" },
   port_macro |-> "periph_gpio_d", port_ty |-> "GpioD", busenr |-> "AHB1ENR",
   busrstr |-> "AHB1RSTR", bussmenr |-> "AHB1LPENR", gpio |-> "GPIOD", gpioen |-> "GPIODEN",
   gpiorst |-> "GPIODRST", gpiosmen |-> "GPIODLPEN",
   ascr |-> << >>]

GpioE_F4 ==
  [cfg |-> { "stm32f401", "stm32f405", "stm32f407", "stm32f411", "stm32f412", "stm32f413",
             "stm32f427", "stm32f429", "stm32f446", "stm32f469" },
   port_macro |-> "periph_gpio_e", port_ty |-> "GpioE", busenr |-> "AHB1ENR",
   busrstr |-> "AHB1RSTR", bussmenr |-> "AHB1LPENR", gpio |-> "GPIOE", gpioen |-> "GPIOEEN",
   gpiorst |-> "GPIOERST", gpiosmen |-> "GPIOELPEN",
   ascr |-> << >>]

GpioF_F4 ==
  [cfg |-> { "stm32f405", "stm32f407", "stm32f412", "stm32f413", "stm32f427", "stm32f429",
             "stm32f446", "stm32f469" },
   port_macro |-> "periph_gpio_f", port_ty |-> "GpioF", busenr |-> "AHB1ENR",
   busrstr |-> "AHB1RSTR", bussmenr |-> "AHB1LPENR", gpio |-> "GPIOF", gpioen |-> "GPIOFEN",
   gpiorst |-> "GPIOFRST", gpiosmen |-> "GPIOFLPEN",
   ascr |-> << >>]

GpioG_F4 ==
  [cfg |-> { "stm32f405", "stm32f407", "stm32f412", "stm32f413", "stm32f427", "stm32f429",
             "stm32f446", "stm32f469" },
   port_macro |-> "periph_gpio_g", port_ty |-> "GpioG", busenr |-> "AHB1ENR",
   busrstr |-> "AHB1RSTR", bussmenr |-> "AHB1LPENR", gpio |-> "GPIOG", gpioen |-> "GPIOGEN",
   gpiorst |-> "GPIOGRST", gpiosmen |-> "GPIOGLPEN",
   ascr |-> << >>]

GpioH_F4 ==
  [cfg |-> { "stm32f401", "stm32f405", "stm32f407", "stm32f410", "stm32f411", "stm32f412",
             "stm32f413", "stm32f427", "stm32f429", "stm32f446", "stm32f469" },
   port_macro |-> "periph_gpio_h", port_ty |-> "GpioH", busenr |-> "AHB1ENR",
   busrstr |-> "AHB1RSTR", bussmenr |-> "AHB1LPENR", gpio |-> "GPIOH", gpioen |-> "GPIOHEN",
   gpiorst |-> "GPIOHRST", gpiosmen |-> "GPIOHLPEN",
   ascr |-> << >>]

GpioI_F4 ==
  [cfg |-> { "stm32f405", "stm32f407", "stm32f427", "stm32f429", "stm32f469" },
   port_macro |-> "periph_gpio_i", port_ty |-> "GpioI", busenr |-> "AHB1ENR",
   busrstr |-> "AHB1RSTR", bussmenr |-> "AHB1LPENR", gpio |-> "GPIOI", gpioen |-> "GPIOIEN",
   gpiorst |-> "GPIOIRST", gpiosmen |-> "GPIOILPEN",
   ascr |-> << >>]

GpioJ_F4 ==
  [cfg |-> { "stm32f405", "stm32f407", "stm32f427", "stm32f429", "stm32f469" },
   port_macro |-> "periph_gpio_j", port_ty |-> "GpioJ", busenr |-> "AHB1ENR",
   busrstr |-> "AHB1RSTR", bussmenr |-> "AHB1LPENR", gpio |-> "GPIOJ", gpioen |-> "GPIOJEN",
   gpiorst |-> "GPIOJRST", gpiosmen |-> "GPIOJLPEN",
   ascr |-> << >>]

GpioK_F4 ==
  [cfg |-> { "stm32f405", "stm32f407", "stm32f427", "stm32f429", "stm32f469" },
   port_macro |-> "periph_gpio_k", port_ty |-> "GpioK", busenr |-> "AHB1ENR",
   busrstr |-> "AHB1RSTR", bussmenr |-> "AHB1LPENR", gpio |-> "GPIOK", gpioen |-> "GPIOKEN",
   gpiorst |-> "GPIOKRST", gpiosmen |-> "GPIOKLPEN",
   ascr |-> << >>]

Instantiations ==
  << GpioA_F1, GpioB_F1, GpioC_F1, GpioD_F1, GpioE_F1, GpioF_F1, GpioG_F1, GpioA_L4, GpioB_L4,
     GpioC_L4, GpioD_L4, GpioE_L4, GpioF_L4, GpioG_L4, GpioH_L4, GpioI_L4, GpioA_F4, GpioB_F4,
     GpioC_F4, GpioD_F4, GpioE_F4, GpioF_F4, GpioG_F4, GpioH_F4, GpioI_F4, GpioJ_F4, GpioK_F4 >>

Range(s) == { s[i] : i \in DOMAIN s }

\* The GPIO peripheral blocks named by the invocations, and those of the
\* invocations compiled under key.
GpioBlocks == { inst.gpio : inst \in Range(Instantiations) }

PortBlocks(key) == { inst.gpio : inst \in { x \in Range(Instantiations) : key \in x.cfg } }

\* GenericReg with the sleep-mode enable register declared with plain access.
GenericRegSleepPlain(block, name) ==
  LET g == CHOOSE x \in Range(GpioPortPeriph) : x.block = block /\ x.name = name
  IN  IF name = "BUSSMENR"
        THEN [g EXCEPT !.kind = "RwReg",
                       !.fields = [i \in DOMAIN g.fields |-> << g.fields[i][1], "RwRwRegField" >>]]
        ELSE g

\* The description of the generic register name in block under key.
GenericReg(block, name) ==
  CHOOSE g \in Range(GpioPortPeriph) : g.block = block /\ g.name = name

\* The expansion of one invocation under key: the port type, its extraction
\* macro, and for every register the macro maps under key the peripheral and
\* register it is mapped to, its kind and markers, and its fields as
\* <<generic field, mapped field, field kind>>.
Expand(inst, key) ==
  [ty    |-> inst.port_ty,
   macro |-> inst.port_macro,
   regs  |-> { [block  |-> r.block,
                name   |-> r.name,
                periph |-> IF r.block = "RCC" THEN "RCC" ELSE inst.gpio,
                to     |-> r.to,
                kind   |-> GenericReg(r.block, r.name).kind,
                shared |-> r.shared,
                fields |-> { << r.fields[i][1], r.fields[i][2],
                                GenericReg(r.block, r.name).fields[i][2] >> :
                             i \in DOMAIN r.fields }] :
               r \in { x \in Range(map_gpio_port(inst)) : CfgHolds(x.cfg, key) /\ x.mapped } }]

\* The cfg values matched by svd_deserialize (src/svd/src/lib.rs:64-90).
SupportedKeys ==
  { "stm32f100", "stm32f101", "stm32f102", "stm32f103", "stm32f107", "stm32f401",
    "stm32f405", "stm32f407", "stm32f410", "stm32f411", "stm32f412", "stm32f413",
    "stm32f427", "stm32f429", "stm32f446", "stm32f469", "stm32l4x1", "stm32l4x2",
    "stm32l4x3", "stm32l4x5", "stm32l4x6", "stm32l4r5", "stm32l4r7", "stm32l4r9",
    "stm32l4s5", "stm32l4s7", "stm32l4s9" }

\* The patch programs, each the ordered list of the steps it calls.
patch_stm32f102 ==
  << "spi::fix_spi2_1" >>

patch_stm32f401 ==
  << "rcc::fix_2", "dma::fix_dma2_1", "tim::fix_tim1_1", "tim::fix_tim2_2",
     "tim::fix_tim2_3", "tim::fix_tim3_3", "tim::fix_tim5_1", "tim::fix_tim9_1",
     "tim::fix_tim10_1", "tim::fix_tim10_2", "tim::fix_tim11_1", "tim::fix_tim11_2",
     "adc::fix_adc1_1" >>

patch_stm32f405 ==
  << "rcc::fix_2", "rcc::fix_3", "dma::fix_dma2_1", "dma::fix_dma2_2",
     "tim::fix_tim1_1", "tim::fix_tim2_2", "tim::fix_tim2_3", "tim::fix_tim3_3",
     "tim::fix_tim5_1", "tim::fix_tim9_1", "tim::fix_tim10_1", "tim::fix_tim10_2",
     "tim::fix_tim11_1", "tim::fix_tim11_2", "adc::fix_adc_com", "adc::fix_adc1_1" >>

patch_stm32f407 ==
  << "rcc::fix_2", "rcc::fix_3", "dma::fix_dma2_1", "dma::fix_dma2_2",
     "tim::fix_tim1_1", "tim::fix_tim2_2", "tim::fix_tim2_3", "tim::fix_tim3_3",
     "tim::fix_tim5_1", "tim::fix_tim9_1", "tim::fix_tim10_1", "tim::fix_tim10_2",
     "tim::fix_tim11_1", "tim::fix_tim11_2", "adc::fix_adc_com", "adc::fix_adc1_1" >>

patch_stm32f410 ==
  << "rcc::fix_2", "dma::fix_dma2_1", "tim::fix_tim1_1", "tim::fix_tim5_1",
     "tim::fix_tim5_2", "tim::fix_tim9_1", "tim::fix_tim11_1", "adc::fix_adc1_1" >>

patch_stm32f411 ==
  << "rcc::fix_2", "dma::fix_dma2_1", "tim::fix_tim1_1", "tim::fix_tim2_2",
     "tim::fix_tim2_3", "tim::fix_tim3_3", "tim::fix_tim5_1", "tim::fix_tim9_1",
     "tim::fix_tim10_1", "tim::fix_tim10_2", "tim::fix_tim11_1", "tim::fix_tim11_2",
     "adc::fix_adc1_1" >>

patch_stm32f412 ==
  << "rcc::fix_2", "dma::fix_dma2_1", "tim::fix_tim1_1", "tim::fix_tim2_2",
     "tim::fix_tim2_3", "tim::fix_tim3_3", "tim::fix_tim5_1", "tim::fix_tim6",
     "tim::fix_tim9_1", "tim::fix_tim10_1", "tim::fix_tim11_1", "adc::fix_adc1_1" >>

patch_stm32f413 ==
  << "rcc::fix_2", "dma::fix_dma1", "exti::fix_exti_2", "tim::fix_tim1_1",
     "tim::fix_tim2_2", "tim::fix_tim2_3", "tim::fix_tim3_3", "tim::fix_tim5_1",
     "tim::fix_tim7", "tim::fix_tim9_1", "tim::fix_tim10_1", "tim::fix_tim11_1",
     "adc::fix_adc1_1" >>

patch_stm32f427 ==
  << "rcc::fix_2", "rcc::fix_3", "dma::fix_dma2_1", "dma::fix_dma2_2",
     "tim::fix_tim1_1", "tim::fix_tim2_2", "tim::fix_tim2_3", "tim::fix_tim3_3",
     "tim::fix_tim5_1", "tim::fix_tim9_1", "tim::fix_tim10_1", "tim::fix_tim10_2",
     "tim::fix_tim11_1", "tim::fix_tim11_2", "adc::fix_adc_com", "adc::fix_adc1_1" >>

patch_stm32f429 ==
  << "rcc::fix_2", "rcc::fix_3", "dma::fix_dma2_1", "dma::fix_dma2_2",
     "tim::fix_tim1_1", "tim::fix_tim2_2", "tim::fix_tim2_3", "tim::fix_tim3_3",
     "tim::fix_tim5_1", "tim::fix_tim9_1", "tim::fix_tim10_1", "tim::fix_tim10_2",
     "tim::fix_tim11_1", "tim::fix_tim11_2", "adc::fix_adc_com", "adc::fix_adc1_1" >>

patch_stm32f446 ==
  << "rcc::fix_2", "dma::fix_dma2_1", "dma::fix_dma2_2", "tim::fix_tim1_1",
     "tim::fix_tim2_2", "tim::fix_tim2_3", "tim::fix_tim3_3", "tim::fix_tim5_1",
     "tim::fix_tim9_1", "tim::fix_tim10_1", "tim::fix_tim11_1", "adc::fix_adc_com",
     "adc::fix_adc1_1" >>

patch_stm32f469 ==
  << "dma::fix_dma2_1", "dma::fix_dma2_2", "tim::fix_tim1_1", "tim::fix_tim2_2",
     "tim::fix_tim2_3", "tim::fix_tim3_3", "tim::fix_tim5_1", "tim::fix_tim9_1",
     "tim::fix_tim10_1", "tim::fix_tim11_1", "adc::fix_adc_com", "adc::fix_adc1_1" >>

patch_stm32l4x1 ==
  << "rcc::fix_4", "tim::fix_lptim1", "tim::fix_lptim2", "uart::fix_lpuart1",
     "rcc::fix_1", "spi::fix_spi2_2", "spi::fix_spi3_1", "tim::fix_tim1_1",
     "tim::fix_tim1_2", "tim::fix_tim16", "tim::fix_tim2_1", "tim::fix_tim2_3",
     "tim::fix_tim15", "tim::fix_tim3_1", "tim::fix_tim3_2", "uart::fix_uart4",
     "uart::fix_usart1", "uart::fix_usart3" >>

patch_stm32l4x2 ==
  << "rcc::fix_4", "i2c::fix", "tim::fix_lptim1", "tim::fix_lptim2",
     "uart::fix_lpuart1", "rcc::fix_1", "spi::fix_spi2_2", "spi::fix_spi3_1",
     "tim::fix_tim1_1", "tim::fix_tim1_2", "tim::fix_tim16", "tim::fix_tim2_1",
     "tim::fix_tim2_3", "tim::fix_tim15", "tim::fix_tim3_1", "tim::fix_tim3_2",
     "uart::fix_uart4", "uart::fix_usart1", "uart::fix_usart3" >>

\* patch_stm32l4x3 with the call of tim::add_tim3 moved behind the fixes of TIM3.
patch_stm32l4x3_Tim3Last ==
  << "rcc::fix_4", "tim::fix_lptim1", "tim::fix_lptim2",
     "rcc::fix_1", "spi::fix_spi3_2", "tim::fix_tim1_1", "tim::fix_tim1_2",
     "tim::fix_tim16", "tim::fix_tim2_1", "tim::fix_tim2_3", "tim::fix_tim15",
     "tim::fix_tim3_1", "tim::fix_tim3_2", "tim::add_tim3" >>

patch_stm32l4x3 ==
  << "tim::add_tim3", "rcc::fix_4", "tim::fix_lptim1", "tim::fix_lptim2",
     "rcc::fix_1", "spi::fix_spi3_2", "tim::fix_tim1_1", "tim::fix_tim1_2",
     "tim::fix_tim16", "tim::fix_tim2_1", "tim::fix_tim2_3", "tim::fix_tim15",
     "tim::fix_tim3_1", "tim::fix_tim3_2" >>

patch_stm32l4x5 ==
  << "rcc::fix_4", "exti::fix_exti_1", "tim::fix_lptim1", "tim::fix_lptim2",
     "rcc::fix_1", "rtc::fix", "spi::fix_spi3_2", "tim::fix_tim1_1",
     "tim::fix_tim1_2", "tim::fix_tim16", "tim::fix_tim2_1", "tim::fix_tim2_3",
     "tim::fix_tim15", "tim::fix_tim3_1", "tim::fix_tim8", "gpio::add_ascr" >>

patch_stm32l4x6 ==
  << "rcc::fix_4", "exti::fix_exti_1", "tim::fix_lptim1", "tim::fix_lptim2",
     "rcc::fix_1", "spi::fix_spi3_2", "tim::fix_tim1_1", "tim::fix_tim1_2",
     "tim::fix_tim16", "tim::fix_tim2_1", "tim::fix_tim2_3", "tim::fix_tim15",
     "tim::fix_tim3_1", "tim::fix_tim8" >>

patch_stm32l4plus ==
  << "dmamux::add_dmamux1", "rcc::fix_4", "exti::fix_exti_1", "tim::fix_lptim1",
     "tim::fix_lptim2", "pwr::fix", "spi::fix_spi3_2", "tim::fix_tim1_1",
     "tim::fix_tim1_2", "tim::fix_tim16", "tim::fix_tim2_1", "tim::fix_tim2_3",
     "tim::fix_tim15", "tim::fix_tim3_1", "tim::fix_tim8", "adc::fix_adc_1" >>

\* The arms without a patch function calling the one of stm32f102.
no_patch_as_f102 == << "spi::fix_spi2_1" >>

\* A variant with no patch function hands the parsed Device on unchanged.
no_patch == << >>

\* The arm of the match in svd_deserialize that a cfg value selects: the SVD
\* file it parses and the patch program it applies; any other value bails.
MatchArm(key) ==
  CASE key = "stm32f100" -> [bail |-> FALSE, file |-> "STM32F100.svd", patch |-> no_patch]
    [] key = "stm32f101" -> [bail |-> FALSE, file |-> "STM32F101.svd", patch |-> no_patch]
    [] key = "stm32f102" -> [bail |-> FALSE, file |-> "STM32F102.svd", patch |-> patch_stm32f102]
    [] key = "stm32f103" -> [bail |-> FALSE, file |-> "STM32F103.svd", patch |-> no_patch]
    [] key = "stm32f107" -> [bail |-> FALSE, file |-> "STM32F107.svd", patch |-> no_patch]
    [] key = "stm32f401" -> [bail |-> FALSE, file |-> "STM32F401.svd", patch |-> patch_stm32f401]
    [] key = "stm32f405" -> [bail |-> FALSE, file |-> "STM32F405.svd", patch |-> patch_stm32f405]
    [] key = "stm32f407" -> [bail |-> FALSE, file |-> "STM32F407.svd", patch |-> patch_stm32f407]
    [] key = "stm32f410" -> [bail |-> FALSE, file |-> "STM32F410.svd", patch |-> patch_stm32f410]
    [] key = "stm32f411" -> [bail |-> FALSE, file |-> "STM32F411.svd", patch |-> patch_stm32f411]
    [] key = "stm32f412" -> [bail |-> FALSE, file |-> "STM32F412.svd", patch |-> patch_stm32f412]
    [] key = "stm32f413" -> [bail |-> FALSE, file |-> "STM32F413.svd", patch |-> patch_stm32f413]
    [] key = "stm32f427" -> [bail |-> FALSE, file |-> "STM32F427.svd", patch |-> patch_stm32f427]
    [] key = "stm32f429" -> [bail |-> FALSE, file |-> "STM32F429.svd", patch |-> patch_stm32f429]
    [] key = "stm32f446" -> [bail |-> FALSE, file |-> "STM32F446.svd", patch |-> patch_stm32f446]
    [] key = "stm32f469" -> [bail |-> FALSE, file |-> "STM32F469.svd", patch |-> patch_stm32f469]
    [] key = "stm32l4x1" -> [bail |-> FALSE, file |-> "STM32L4x1.svd", patch |-> patch_stm32l4x1]
    [] key = "stm32l4x2" -> [bail |-> FALSE, file |-> "STM32L4x2.svd", patch |-> patch_stm32l4x2]
    [] key = "stm32l4x3" -> [bail |-> FALSE, file |-> "STM32L4x3.svd", patch |-> patch_stm32l4x3]
    [] key = "stm32l4x5" -> [bail |-> FALSE, file |-> "STM32L4x5.svd", patch |-> patch_stm32l4x5]
    [] key = "stm32l4x6" -> [bail |-> FALSE, file |-> "STM32L4x6.svd", patch |-> patch_stm32l4x6]
    [] key = "stm32l4r5" -> [bail |-> FALSE, file |-> "STM32L4R5.svd", patch |-> patch_stm32l4plus]
    [] key = "stm32l4r7" -> [bail |-> FALSE, file |-> "STM32L4R7.svd", patch |-> patch_stm32l4plus]
    [] key = "stm32l4r9" -> [bail |-> FALSE, file |-> "STM32L4R9.svd", patch |-> patch_stm32l4plus]
    [] key = "stm32l4s5" -> [bail |-> FALSE, file |-> "STM32L4S5.svd", patch |-> patch_stm32l4plus]
    [] key = "stm32l4s7" -> [bail |-> FALSE, file |-> "STM32L4S7.svd", patch |-> patch_stm32l4plus]
    [] key = "stm32l4s9" -> [bail |-> FALSE, file |-> "STM32L4S9.svd", patch |-> patch_stm32l4plus]
    [] OTHER -> [bail |-> TRUE, file |-> "", patch |-> << >>]

\* What each patch step does to the Device. The step functions live in the modules
\* adc, dma, dmamux, exti, gpio, i2c, pwr, rcc, rtc, spi, tim and uart of the svd crate;
\* each row names the patch operation the step performs, the peripheral it copies from,
\* the peripherals it corrects, the register or field it supplies, and the slot (bit
\* position of a field, word index of a register) that entity occupies.
StepTable ==
  << [step |-> "adc::fix_adc1_1", kind |-> "copy_reg", donor |-> "ADC2", targets |-> << "ADC1" >>, name |-> "ADC_FIX_ADC1_1", slot |-> 1],
     [step |-> "adc::fix_adc_1", kind |-> "copy_reg", donor |-> "ADC2", targets |-> << "ADC1" >>, name |-> "ADC_FIX_ADC_1", slot |-> 2],
     [step |-> "adc::fix_adc_com", kind |-> "copy_reg", donor |-> "ADC2", targets |-> << "ADC_Common" >>, name |-> "ADC_FIX_ADC_COM", slot |-> 3],
     [step |-> "dma::fix_dma1", kind |-> "copy_reg", donor |-> "DMA2", targets |-> << "DMA1" >>, name |-> "DMA_FIX_DMA1", slot |-> 4],
     [step |-> "dma::fix_dma2_1", kind |-> "copy_reg", donor |-> "DMA1", targets |-> << "DMA2" >>, name |-> "DMA_FIX_DMA2_1", slot |-> 5],
     [step |-> "dma::fix_dma2_2", kind |-> "copy_reg", donor |-> "DMA1", targets |-> << "DMA2" >>, name |-> "DMA_FIX_DMA2_2", slot |-> 6],
     [step |-> "dmamux::add_dmamux1", kind |-> "add_periph", donor |-> "", targets |-> << "DMAMUX1" >>, name |-> "CR", slot |-> 1],
     [step |-> "exti::fix_exti_1", kind |-> "add_field", donor |-> "", targets |-> << "EXTI" >>, name |-> "EXTI_FIX_EXTI_1", slot |-> 1],
     [step |-> "exti::fix_exti_2", kind |-> "add_field", donor |-> "", targets |-> << "EXTI" >>, name |-> "EXTI_FIX_EXTI_2", slot |-> 2],
     [step |-> "gpio::add_ascr", kind |-> "add_reg", donor |-> "", targets |-> << "GPIOA", "GPIOB", "GPIOC", "GPIOD", "GPIOE", "GPIOF", "GPIOG", "GPIOH" >>, name |-> "ASCR", slot |-> 1],
     [step |-> "i2c::fix", kind |-> "add_field", donor |-> "", targets |-> << "I2C1" >>, name |-> "I2C_FIX", slot |-> 3],
     [step |-> "pwr::fix", kind |-> "add_field", donor |-> "", targets |-> << "PWR" >>, name |-> "PWR_FIX", slot |-> 4],
     [step |-> "rcc::fix_1", kind |-> "add_field", donor |-> "", targets |-> << "RCC" >>, name |-> "RCC_FIX_1", slot |-> 5],
     [step |-> "rcc::fix_2", kind |-> "add_field", donor |-> "", targets |-> << "RCC" >>, name |-> "RCC_FIX_2", slot |-> 6],
     [step |-> "rcc::fix_3", kind |-> "add_field", donor |-> "", targets |-> << "RCC" >>, name |-> "RCC_FIX_3", slot |-> 7],
     [step |-> "rcc::fix_4", kind |-> "add_field", donor |-> "", targets |-> << "RCC" >>, name |-> "RCC_FIX_4", slot |-> 8],
     [step |-> "rtc::fix", kind |-> "add_field", donor |-> "", targets |-> << "RTC" >>, name |-> "RTC_FIX", slot |-> 9],
     [step |-> "spi::fix_spi2_1", kind |-> "copy_reg", donor |-> "SPI1", targets |-> << "SPI2" >>, name |-> "SPI_FIX_SPI2_1", slot |-> 7],
     [step |-> "spi::fix_spi2_2", kind |-> "copy_reg", donor |-> "SPI1", targets |-> << "SPI2" >>, name |-> "SPI_FIX_SPI2_2", slot |-> 8],
     [step |-> "spi::fix_spi3_1", kind |-> "copy_reg", donor |-> "SPI1", targets |-> << "SPI3" >>, name |-> "SPI_FIX_SPI3_1", slot |-> 9],
     [step |-> "spi::fix_spi3_2", kind |-> "copy_reg", donor |-> "SPI1", targets |-> << "SPI3" >>, name |-> "SPI_FIX_SPI3_2", slot |-> 10],
     [step |-> "tim::add_tim3", kind |-> "add_periph", donor |-> "", targets |-> << "TIM3" >>, name |-> "CR", slot |-> 2],
     [step |-> "tim::fix_lptim1", kind |-> "copy_field", donor |-> "TIM4", targets |-> << "LPTIM1" >>, name |-> "TIM_FIX_LPTIM1", slot |-> 1],
     [step |-> "tim::fix_lptim2", kind |-> "copy_field", donor |-> "TIM4", targets |-> << "LPTIM2" >>, name |-> "TIM_FIX_LPTIM2", slot |-> 2],
     [step |-> "tim::fix_tim10_1", kind |-> "copy_field", donor |-> "TIM4", targets |-> << "TIM10" >>, name |-> "TIM_FIX_TIM10_1", slot |-> 3],
     [step |-> "tim::fix_tim10_2", kind |-> "copy_field", donor |-> "TIM4", targets |-> << "TIM10" >>, name |-> "TIM_FIX_TIM10_2", slot |-> 4],
     [step |-> "tim::fix_tim11_1", kind |-> "copy_field", donor |-> "TIM4", targets |-> << "TIM11" >>, name |-> "TIM_FIX_TIM11_1", slot |-> 5],
     [step |-> "tim::fix_tim11_2", kind |-> "copy_field", donor |-> "TIM4", targets |-> << "TIM11" >>, name |-> "TIM_FIX_TIM11_2", slot |-> 6],
     [step |-> "tim::fix_tim15", kind |-> "copy_field", donor |-> "TIM4", targets |-> << "TIM15" >>, name |-> "TIM_FIX_TIM15", slot |-> 7],
     [step |-> "tim::fix_tim16", kind |-> "copy_field", donor |-> "TIM4", targets |-> << "TIM16" >>, name |-> "TIM_FIX_TIM16", slot |-> 8],
     [step |-> "tim::fix_tim1_1", kind |-> "copy_field", donor |-> "TIM4", targets |-> << "TIM1" >>, name |-> "TIM_FIX_TIM1_1", slot |-> 9],
     [step |-> "tim::fix_tim1_2", kind |-> "copy_field", donor |-> "TIM4", targets |-> << "TIM1" >>, name |-> "TIM_FIX_TIM1_2", slot |-> 10],
     [step |-> "tim::fix_tim2_1", kind |-> "copy_field", donor |-> "TIM4", targets |-> << "TIM2" >>, name |-> "TIM_FIX_TIM2_1", slot |-> 11],
     [step |-> "tim::fix_tim2_2", kind |-> "copy_field", donor |-> "TIM4", targets |-> << "TIM2" >>, name |-> "TIM_FIX_TIM2_2", slot |-> 12],
     [step |-> "tim::fix_tim2_3", kind |-> "copy_field", donor |-> "TIM4", targets |-> << "TIM2" >>, name |-> "TIM_FIX_TIM2_3", slot |-> 13],
     [step |-> "tim::fix_tim3_1", kind |-> "copy_field", donor |-> "TIM4", targets |-> << "TIM3" >>, name |-> "TIM_FIX_TIM3_1", slot |-> 14],
     [step |-> "tim::fix_tim3_2", kind |-> "copy_field", donor |-> "TIM4", targets |-> << "TIM3" >>, name |-> "TIM_FIX_TIM3_2", slot |-> 15],
     [step |-> "tim::fix_tim3_3", kind |-> "copy_field", donor |-> "TIM4", targets |-> << "TIM3" >>, name |-> "TIM_FIX_TIM3_3", slot |-> 16],
     [step |-> "tim::fix_tim5_1", kind |-> "copy_field", donor |-> "TIM4", targets |-> << "TIM5" >>, name |-> "TIM_FIX_TIM5_1", slot |-> 17],
     [step |-> "tim::fix_tim5_2", kind |-> "copy_field", donor |-> "TIM4", targets |-> << "TIM5" >>, name |-> "TIM_FIX_TIM5_2", slot |-> 18],
     [step |-> "tim::fix_tim6", kind |-> "copy_field", donor |-> "TIM4", targets |-> << "TIM6" >>, name |-> "TIM_FIX_TIM6", slot |-> 19],
     [step |-> "tim::fix_tim7", kind |-> "copy_field", donor |-> "TIM4", targets |-> << "TIM7" >>, name |-> "TIM_FIX_TIM7", slot |-> 20],
     [step |-> "tim::fix_tim8", kind |-> "copy_field", donor |-> "TIM4", targets |-> << "TIM8" >>, name |-> "TIM_FIX_TIM8", slot |-> 21],
     [step |-> "tim::fix_tim9_1", kind |-> "copy_field", donor |-> "TIM4", targets |-> << "TIM9" >>, name |-> "TIM_FIX_TIM9_1", slot |-> 22],
     [step |-> "uart::fix_lpuart1", kind |-> "copy_reg", donor |-> "USART2", targets |-> << "LPUART1" >>, name |-> "UART_FIX_LPUART1", slot |-> 11],
     [step |-> "uart::fix_uart4", kind |-> "copy_reg", donor |-> "USART2", targets |-> << "UART4" >>, name |-> "UART_FIX_UART4", slot |-> 12],
     [step |-> "uart::fix_usart1", kind |-> "copy_reg", donor |-> "USART2", targets |-> << "USART1" >>, name |-> "UART_FIX_USART1", slot |-> 13],
     [step |-> "uart::fix_usart3", kind |-> "copy_reg", donor |-> "USART2", targets |-> << "USART3" >>, name |-> "UART_FIX_USART3", slot |-> 14] >>

(***************************************************************************)
(* The Device model. A Device maps peripheral names to the sequence of the  *)
(* peripheral's registers; a register has a name, a byte offset, a bit      *)
(* width and the sequence of its fields; a field has a name, a bit offset   *)
(* and a bit width.                                                         *)
(***************************************************************************)
Field(n, b, w) == [name |-> n, bit |-> b, width |-> w]

Register(n, off, sz, fs) == [name |-> n, offset |-> off, size |-> sz, fields |-> fs]

NoDevice == [none |-> TRUE]

\* Index of the first entity called n in the sequence s, 0 when there is none.
IndexOf(s, n) ==
  IF \E i \in DOMAIN s : s[i].name = n
    THEN CHOOSE i \in DOMAIN s : s[i].name = n /\ \A j \in 1..(i - 1) : s[j].name # n
    ELSE 0

\* The Device library's add primitive on a sequence of named entities. The
\* library either keeps entities in a list and pushes ("push"), or keys them
\* by name and inserts, replacing an entity of the same name ("insert").
AddNamed(s, e) ==
  IF addMode = "insert" /\ IndexOf(s, e.name) # 0
    THEN [s EXCEPT ![IndexOf(s, e.name)] = e]
    ELSE Append(s, e)

\* Peripheral::add_reg and Register::add_field.
add_reg(regs, reg) == AddNamed(regs, reg)

add_field(reg, field) == [reg EXCEPT !.fields = AddNamed(@, field)]

Ok(d) == [dev |-> d, res |-> "ok"]

\* Device::periph, Peripheral::reg and Register::field abort the run when the
\* name is absent.
LookupFailed(d) == [dev |-> d, res |-> "LookupError"]

\* copy_reg with the two peripheral names exchanged in its body.
copy_reg_swapped(d, periph_from, periph_to, reg_name) ==
  IF periph_to \notin DOMAIN d THEN LookupFailed(d)
  ELSE IF IndexOf(d[periph_to], reg_name) = 0 THEN LookupFailed(d)
  ELSE LET reg == d[periph_to][IndexOf(d[periph_to], reg_name)] IN
       IF periph_from \notin DOMAIN d THEN LookupFailed(d)
       ELSE Ok([d EXCEPT ![periph_from] = add_reg(@, reg)])

\* fn copy_reg(dev, periph_from, periph_to, reg_name)
copy_reg(d, periph_from, periph_to, reg_name) ==
  IF periph_from \notin DOMAIN d THEN LookupFailed(d)
  ELSE IF IndexOf(d[periph_from], reg_name) = 0 THEN LookupFailed(d)
  ELSE LET reg == d[periph_from][IndexOf(d[periph_from], reg_name)] IN
       IF periph_to \notin DOMAIN d THEN LookupFailed(d)
       ELSE Ok([d EXCEPT ![periph_to] = add_reg(@, reg)])

\* copy_field that creates the register in the target when the target has
\* none of that name, instead of failing the lookup.
copy_field_creating(d, periph_from, periph_to, reg_name, field_name) ==
  IF periph_from \notin DOMAIN d THEN LookupFailed(d)
  ELSE IF IndexOf(d[periph_from], reg_name) = 0 THEN LookupFailed(d)
  ELSE LET src == d[periph_from][IndexOf(d[periph_from], reg_name)] IN
       IF IndexOf(src.fields, field_name) = 0 THEN LookupFailed(d)
       ELSE LET field == src.fields[IndexOf(src.fields, field_name)] IN
            IF periph_to \notin DOMAIN d THEN LookupFailed(d)
            ELSE IF IndexOf(d[periph_to], reg_name) = 0
              THEN Ok([d EXCEPT ![periph_to] = Append(@, [src EXCEPT !.fields = << field >>])])
            ELSE LET i == IndexOf(d[periph_to], reg_name) IN
                 Ok([d EXCEPT ![periph_to][i] = add_field(@, field)])

\* fn copy_field(dev, periph_from, periph_to, reg_name, field_name)
copy_field(d, periph_from, periph_to, reg_name, field_name) ==
  IF periph_from \notin DOMAIN d THEN LookupFailed(d)
  ELSE IF IndexOf(d[periph_from], reg_name) = 0 THEN LookupFailed(d)
  ELSE LET src == d[periph_from][IndexOf(d[periph_from], reg_name)] IN
       IF IndexOf(src.fields, field_name) = 0 THEN LookupFailed(d)
       ELSE LET field == src.fields[IndexOf(src.fields, field_name)] IN
            IF periph_to \notin DOMAIN d THEN LookupFailed(d)
            ELSE IF IndexOf(d[periph_to], reg_name) = 0 THEN LookupFailed(d)
            ELSE LET i == IndexOf(d[periph_to], reg_name) IN
                 Ok([d EXCEPT ![periph_to][i] = add_field(@, field)])

StepOp(s) == StepTable[CHOOSE i \in DOMAIN StepTable : StepTable[i].step = s]

\* The control register every modelled peripheral starts with.
ControlReg(extra) == Register("CR", 0, 32, << Field("EN", 0, 1) >> \o extra)

\* The entity a step supplies: a one-bit field at the step's slot, or a
\* register at the step's word.
StepField(r) == Field(r.name, r.slot, 1)

StepReg(r) == Register(r.name, 4 * r.slot, 32, << Field("VAL", 0, 1) >>)

MapSeq(s, F(_)) == [i \in DOMAIN s |-> F(s[i])]

\* Adds the register reg to each peripheral of targets in turn; the first
\* peripheral that does not exist aborts the step.
RECURSIVE AddRegToAll(_, _, _)
AddRegToAll(d, targets, reg) ==
  IF targets = << >> THEN Ok(d)
  ELSE IF Head(targets) \notin DOMAIN d THEN LookupFailed(d)
  ELSE AddRegToAll([d EXCEPT ![Head(targets)] = add_reg(@, reg)], Tail(targets), reg)

\* One patch step applied to the Device d.
ApplyStep(d, s) ==
  LET r == StepOp(s)
      t == r.targets[1]
  IN CASE r.kind = "copy_reg"   -> copy_reg(d, r.donor, t, r.name)
       [] r.kind = "copy_field" -> copy_field(d, r.donor, t, "CR", r.name)
       [] r.kind = "add_field"  ->
            IF t \notin DOMAIN d THEN LookupFailed(d)
            ELSE IF IndexOf(d[t], "CR") = 0 THEN LookupFailed(d)
            ELSE Ok([d EXCEPT ![t][IndexOf(d[t], "CR")] = add_field(@, StepField(r))])
       [] r.kind = "add_reg"    -> AddRegToAll(d, r.targets, StepReg(r))
       [] r.kind = "add_periph" ->
            Ok([p \in DOMAIN d \cup {t} |-> IF p = t THEN << ControlReg(<< >>) >> ELSE d[p]])

\* A whole patch program applied to d from step i on: the first failing step
\* ends it (the ? after each call).
RECURSIVE ApplyProgram(_, _, _)
ApplyProgram(d, program, i) ==
  IF i > Len(program) THEN Ok(d)
  ELSE LET r == ApplyStep(d, program[i]) IN
       IF r.res # "ok" THEN r ELSE ApplyProgram(r.dev, program, i + 1)

(***************************************************************************)
(* The vendor files. The file of a variant describes the core peripherals,  *)
(* RCC, the GPIO ports of the variant and every peripheral the variant's    *)
(* patch program reads or corrects; the peripherals a program copies from   *)
(* hold the registers and fields it copies.                                 *)
(***************************************************************************)
CorePeriphs == { "FPU", "FPU_CPACR", "ITM", "MPU", "NVIC", "SCB", "STK", "TPIU" }

ProgramOps(program) == { StepOp(program[i]) : i \in DOMAIN program }

CreatedBy(program) == { r.targets[1] : r \in { x \in ProgramOps(program) : x.kind = "add_periph" } }

TargetsOf(program) ==
  UNION { { r.targets[i] : i \in DOMAIN r.targets } : r \in ProgramOps(program) }

DonorsOf(program) ==
  { r.donor : r \in { x \in ProgramOps(program) : x.kind \in { "copy_reg", "copy_field" } } }

Donated(program, p, kind) ==
  SelectSeq(MapSeq(program, StepOp), LAMBDA r : r.kind = kind /\ r.donor = p)

GpioRegs ==
  << Register("IDR", 16, 32, << Field("IDR0", 0, 1) >>),
     Register("ODR", 20, 32, << Field("ODR0", 0, 1) >>) >>

VendorPeriph(program, p) ==
  IF p \in CorePeriphs THEN << Register("CTRL", 0, 32, << Field("ENABLE", 0, 1) >>) >>
  ELSE IF p \in GpioBlocks THEN GpioRegs
  ELSE << ControlReg(MapSeq(Donated(program, p, "copy_field"), StepField)) >>
         \o MapSeq(Donated(program, p, "copy_reg"), StepReg)

VendorDevice(key) ==
  LET program == MatchArm(key).patch
      names   == CorePeriphs \cup { "RCC" } \cup PortBlocks(key) \cup DonorsOf(program)
                   \cup (TargetsOf(program) \ CreatedBy(program))
  IN [p \in names |-> VendorPeriph(program, p)]

\* A vendor file of another revision: the peripheral the middle step of the
\* variant's patch program corrects is not described.
StaleDevice(key) ==
  LET program == MatchArm(key).patch
      d       == VendorDevice(key)
  IN IF program = << >> THEN d
     ELSE LET gone == StepOp(program[(Len(program) + 1) \div 2]).targets[1] IN
          [p \in DOMAIN d \ { gone } |-> d[p]]

\* Values of stm32_mcu outside the supported set: an unknown part number, a
\* supported key in another case, and a proper prefix of a supported key.
OtherKeys == { "stm32f999", "STM32F103", "stm32f10" }

AllKeys == SupportedKeys \cup OtherKeys

OutFiles == { "svd_regs.rs", "svd_reg_index.rs", "svd_interrupts.rs" }

Absent == [exists |-> FALSE, chunks |-> << >>]

NoOp == [op |-> "none", from |-> "", to |-> "", reg |-> "", field |-> "",
         before |-> NoDevice, res |-> "none"]

\* The values the variables of the other specifications keep while one runs.
PipeIdle ==
  /\ mcu = "unset" /\ outDirSet = FALSE /\ svdState = "ok"
  /\ files = [f \in OutFiles |-> Absent] /\ runs = 0 /\ pc = "off" /\ op = "none" /\ pool = << >>
  /\ dev = NoDevice /\ stepIx = 0 /\ result = "none"
  /\ parsedLog = << >> /\ createdLog = << >> /\ emitLog = << >> /\ produced = << >>

SchemaIdle == sKey = "unset" /\ sIx = 0 /\ sTokens = << >>

OpsIdle == oDev = NoDevice /\ oLast = NoOp /\ oCount = 0

TwiceIdle == tKey = "unset" /\ tDev = NoDevice /\ tIx = 0 /\ tPass = 0 /\ tRes = "none"


BandIdle ==
  bKey = "unset" /\ bPorts = << >> /\ bWord0 = << >> /\ bWord = << >> /\ bOwn = << >>
(***************************************************************************)
(* The build script: generate_regs and generate_rest.                       *)
(***************************************************************************)
MaxRuns == 2

\* The (pool_number, pool_size) arguments the build script may pass.
PoolArgs == { << 1, 1 >>, << 1, 2 >>, << 2, 2 >> }

REG_EXCLUDE == { "FPU", "FPU_CPACR", "ITM", "MPU", "NVIC", "SCB", "STK", "TPIU" }

\* The exclusion list generate_regs and generate_rest hand to the emitter.
RegsExclude == REG_EXCLUDE

\* generate_rest handing the emitter an empty exclusion list.
RestExcludeNothing == {}

RestExclude == REG_EXCLUDE

\* The file opened for writing without truncation: earlier contents stay.
FileOpenKeeping(fs, name) == [fs EXCEPT ![name].exists = TRUE]

\* File::create: the file exists afterwards and is empty.
FileCreate(fs, name) == [fs EXCEPT ![name] = [exists |-> TRUE, chunks |-> << >>]]

\* A write through the handle File::create returned.
FileWrite(fs, name, chunk) == [fs EXCEPT ![name].chunks = Append(@, chunk)]

\* The match comparing the cfg value without regard to case.
SelectArmIgnoringCase(key) ==
  IF key = "STM32F103" THEN MatchArm("stm32f103") ELSE MatchArm(key)

\* The match with a fall-through arm that parses the first vendor file instead
\* of bailing.
SelectArmDefaulting(key) ==
  IF MatchArm(key).bail THEN MatchArm("stm32f100") ELSE MatchArm(key)

\* The arm the match in svd_deserialize takes for the cfg value key.
SelectArm(key) == MatchArm(key)

\* The variant whose arm parses the file path.
KeyOfFile(path) == CHOOSE k \in SupportedKeys : MatchArm(k).file = path

\* format!("{}/files/{}", env!("CARGO_MANIFEST_DIR"), path), by component.
SvdPath(path) == << "CARGO_MANIFEST_DIR", "files", path >>

\* fn parse_svd(path): drone_svd::parse on the file of that name in the files
\* directory of the crate.
parse_svd(path) ==
  IF svdState = "malformed" THEN [dev |-> NoDevice, res |-> "ParseError"]
  ELSE IF svdState = "stale" THEN Ok(StaleDevice(KeyOfFile(path)))
  ELSE Ok(VendorDevice(KeyOfFile(path)))

\* The emitter: what Device::generate_regs and Device::generate_rest write for
\* the Device d and the exclusion list.
Emitted(d, exclude) == DOMAIN d \ exclude

RegDefs(d, exclude) ==
  UNION { { << p, d[p][i].name, d[p][i].offset, d[p][i].size >> : i \in DOMAIN d[p] } :
          p \in Emitted(d, exclude) }

FieldDefs(d, exclude) ==
  UNION { UNION { { << p, d[p][i].name, d[p][i].fields[j] >> : j \in DOMAIN d[p][i].fields } :
                  i \in DOMAIN d[p] } :
          p \in Emitted(d, exclude) }

\* The register definitions are split into pool_size pools, one per
\* compilation unit; a call emits the pool numbered pool_number. The i-th
\* register of a peripheral goes to pool ((i - 1) mod pool_size) + 1.
InPool(i, pool_number, pool_size) == ((i - 1) % pool_size) + 1 = pool_number

PoolRegDefs(d, exclude, pool_number, pool_size) ==
  UNION { { << p, d[p][i].name, d[p][i].offset, d[p][i].size >> :
            i \in { k \in DOMAIN d[p] : InPool(k, pool_number, pool_size) } } :
          p \in Emitted(d, exclude) }

PoolFieldDefs(d, exclude, pool_number, pool_size) ==
  UNION { UNION { { << p, d[p][i].name, d[p][i].fields[j] >> : j \in DOMAIN d[p][i].fields } :
                  i \in { k \in DOMAIN d[p] : InPool(k, pool_number, pool_size) } } :
          p \in Emitted(d, exclude) }

EmitRegs(d, exclude, pool_number, pool_size) ==
  [pools |-> << pool_number, pool_size >>,
   regs |-> PoolRegDefs(d, exclude, pool_number, pool_size),
   fields |-> PoolFieldDefs(d, exclude, pool_number, pool_size)]

EmitIndex(d, exclude, macro_name) ==
  [macro |-> macro_name,
   index |-> UNION { { << p, d[p][i].name >> : i \in DOMAIN d[p] } : p \in Emitted(d, exclude) }]

EmitInterrupts(d, exclude) == [interrupts |-> Emitted(d, exclude)]

\* What an earlier build of the crate left in the output directory.
Leftover(f) ==
  [exists |-> TRUE,
   chunks |-> << IF f = "svd_regs.rs" THEN EmitRegs(VendorDevice("stm32f100"), REG_EXCLUDE, 1, 1)
                 ELSE IF f = "svd_reg_index.rs"
                   THEN EmitIndex(VendorDevice("stm32f100"), REG_EXCLUDE, "stm32_reg_tokens")
                 ELSE EmitInterrupts(VendorDevice("stm32f100"), REG_EXCLUDE) >>]

Program == SelectArm(mcu).patch

Fail(err) ==
  /\ result' = err
  /\ pc' = "done"
  /\ dev' = NoDevice

\* A call of generate_regs(pool_number, pool_size) or of generate_rest().
StartRun(o, p) ==
  /\ pc \in { "idle", "done" }
  /\ runs < MaxRuns
  /\ runs' = runs + 1
  /\ op' = o
  /\ pool' = p
  /\ pc' = "out_dir"
  /\ dev' = NoDevice
  /\ stepIx' = 0
  /\ result' = "running"
  /\ parsedLog' = << >>
  /\ createdLog' = << >>
  /\ emitLog' = << >>
  /\ UNCHANGED << addMode, mcu, outDirSet, svdState, files, produced, schemaVars, opsVars,
                  twiceVars, bandVars >>

generate_regs ==
  \E args \in PoolArgs : StartRun("regs", args)

generate_rest == StartRun("rest", << >>)

\* The first output file created right after OUT_DIR is read, before
\* svd_deserialize is called.
ReadOutDirThenCreate ==
  /\ pc = "out_dir"
  /\ IF outDirSet
       THEN /\ files' = FileCreate(files, IF op = "regs" THEN "svd_regs.rs" ELSE "svd_reg_index.rs")
            /\ createdLog' = << IF op = "regs" THEN "svd_regs.rs" ELSE "svd_reg_index.rs" >>
            /\ pc' = "select"
            /\ UNCHANGED << result, dev >>
       ELSE Fail("EnvError") /\ UNCHANGED << files, createdLog >>
  /\ UNCHANGED << addMode, mcu, outDirSet, svdState, runs, op, pool, stepIx,
                  parsedLog, emitLog, produced, schemaVars, opsVars, twiceVars, bandVars >>

\* let out_dir = env::var("OUT_DIR")?;
ReadOutDir ==
  /\ pc = "out_dir"
  /\ IF outDirSet
       THEN pc' = "select" /\ UNCHANGED << result, dev >>
       ELSE Fail("EnvError")
  /\ UNCHANGED << addMode, mcu, outDirSet, svdState, files, runs, op, pool, stepIx,
                  parsedLog, createdLog, emitLog, produced, schemaVars, opsVars, twiceVars, bandVars >>

\* svd_deserialize: match env::var("CARGO_CFG_STM32_MCU")?.as_ref() { ... }
svd_deserialize ==
  /\ pc = "select"
  /\ IF mcu = "unset" THEN Fail("EnvError")
     ELSE IF SelectArm(mcu).bail THEN Fail("UnsupportedVariant")
     ELSE pc' = "parse" /\ UNCHANGED << result, dev >>
  /\ UNCHANGED << addMode, mcu, outDirSet, svdState, files, runs, op, pool, stepIx,
                  parsedLog, createdLog, emitLog, produced, schemaVars, opsVars, twiceVars, bandVars >>

\* A parse whose failure goes back to the match to try again instead of
\* returning the error.
ParseRetrying ==
  /\ pc = "parse"
  /\ LET r == parse_svd(SelectArm(mcu).file) IN
       IF r.res # "ok"
         THEN pc' = "select" /\ UNCHANGED << result, dev, parsedLog >>
         ELSE /\ parsedLog' = Append(parsedLog, SvdPath(SelectArm(mcu).file))
              /\ dev' = r.dev
              /\ pc' = IF Program = << >> THEN "create" ELSE "patch"
              /\ UNCHANGED result
  /\ UNCHANGED << addMode, mcu, outDirSet, svdState, files, runs, op, pool, stepIx,
                  createdLog, emitLog, produced, schemaVars, opsVars, twiceVars, bandVars >>

\* An arm that returns the parsed Device without calling its patch function.
ParseSkippingPatch ==
  /\ pc = "parse"
  /\ parsedLog' = Append(parsedLog, SvdPath(SelectArm(mcu).file))
  /\ LET r == parse_svd(SelectArm(mcu).file) IN
       IF r.res # "ok" THEN Fail(r.res)
       ELSE /\ dev' = r.dev
            /\ pc' = "create"
            /\ UNCHANGED result
  /\ UNCHANGED << addMode, mcu, outDirSet, svdState, files, runs, op, pool, stepIx,
                  createdLog, emitLog, produced, schemaVars, opsVars, twiceVars, bandVars >>

\* parse_svd("<file>")? in the selected arm.
Parse ==
  /\ pc = "parse"
  /\ parsedLog' = Append(parsedLog, SvdPath(SelectArm(mcu).file))
  /\ LET r == parse_svd(SelectArm(mcu).file) IN
       IF r.res # "ok" THEN Fail(r.res)
       ELSE /\ dev' = r.dev
            /\ pc' = IF Program = << >> THEN "create" ELSE "patch"
            /\ UNCHANGED result
  /\ UNCHANGED << addMode, mcu, outDirSet, svdState, files, runs, op, pool, stepIx,
                  createdLog, emitLog, produced, schemaVars, opsVars, twiceVars, bandVars >>

\* A patch step called without the ? after it: its error is dropped and the
\* next step runs on the Device as the failed step left it.
PatchStepIgnoringError ==
  /\ pc = "patch"
  /\ dev' = ApplyStep(dev, Program[stepIx + 1]).dev
  /\ stepIx' = stepIx + 1
  /\ pc' = IF stepIx + 1 = Len(Program) THEN "create" ELSE "patch"
  /\ UNCHANGED << addMode, mcu, outDirSet, svdState, files, runs, op, pool, result,
                  parsedLog, createdLog, emitLog, produced, schemaVars, opsVars, twiceVars,
                  bandVars >>

\* The next step of the patch function of the selected arm, with its ?.
PatchStep ==
  /\ pc = "patch"
  /\ LET r == ApplyStep(dev, Program[stepIx + 1]) IN
       IF r.res # "ok" THEN Fail(r.res) /\ UNCHANGED stepIx
       ELSE /\ dev' = r.dev
            /\ stepIx' = stepIx + 1
            /\ pc' = IF stepIx + 1 = Len(Program) THEN "create" ELSE "patch"
            /\ UNCHANGED result
  /\ UNCHANGED << addMode, mcu, outDirSet, svdState, files, runs, op, pool,
                  parsedLog, createdLog, emitLog, produced, schemaVars, opsVars, twiceVars, bandVars >>

\* File::create whose failure removes the output files before the error is
\* returned.
CreateFileCleaningUp(name, next) ==
  /\ \E created \in BOOLEAN :
       IF created
         THEN /\ files' = FileCreate(files, name)
              /\ createdLog' = Append(createdLog, name)
              /\ pc' = next
              /\ UNCHANGED << result, dev >>
         ELSE /\ Fail("IoError")
              /\ files' = [f \in OutFiles |-> Absent]
              /\ UNCHANGED createdLog
  /\ UNCHANGED << addMode, mcu, outDirSet, svdState, runs, op, pool, stepIx,
                  parsedLog, emitLog, produced, schemaVars, opsVars, twiceVars, bandVars >>

\* File::create(out_dir.join(name))? : the file is created, or truncated, or
\* the call fails and the run returns the error.
CreateFile(name, next) ==
  /\ \E created \in BOOLEAN :
       IF created
         THEN /\ files' = FileCreate(files, name)
              /\ createdLog' = Append(createdLog, name)
              /\ pc' = next
              /\ UNCHANGED << result, dev >>
         ELSE Fail("IoError") /\ UNCHANGED << files, createdLog >>
  /\ UNCHANGED << addMode, mcu, outDirSet, svdState, runs, op, pool, stepIx,
                  parsedLog, emitLog, produced, schemaVars, opsVars, twiceVars, bandVars >>

CreateRegs == pc = "create" /\ op = "regs" /\ CreateFile("svd_regs.rs", "emit")

CreateRegIndex == pc = "create" /\ op = "rest" /\ CreateFile("svd_reg_index.rs", "create2")

CreateInterrupts == pc = "create2" /\ CreateFile("svd_interrupts.rs", "emit")

\* The emitter called with pool_size and pool_number exchanged.
EmitGenerateRegsSwapped ==
  /\ pc = "emit" /\ op = "regs"
  /\ emitLog' = Append(emitLog, [fn |-> "generate_regs", outputs |-> << "svd_regs.rs" >>,
                                 exclude |-> RegsExclude, dev |-> dev])
  /\ files' = FileWrite(files, "svd_regs.rs", EmitRegs(dev, RegsExclude, pool[2], pool[1]))
  /\ produced' = Append(produced,
       [op |-> op, pool |-> pool, dev |-> dev, out |-> << files'["svd_regs.rs"] >>])
  /\ result' = "ok"
  /\ pc' = "done"
  /\ UNCHANGED << addMode, mcu, outDirSet, svdState, runs, op, pool, dev, stepIx,
                  parsedLog, createdLog, schemaVars, opsVars, twiceVars, bandVars >>

\* dev.generate_regs(&mut regs, REG_EXCLUDE, pool_number, pool_size)
EmitGenerateRegs ==
  /\ pc = "emit" /\ op = "regs"
  /\ emitLog' = Append(emitLog, [fn |-> "generate_regs", outputs |-> << "svd_regs.rs" >>,
                                 exclude |-> RegsExclude, dev |-> dev])
  /\ files' = FileWrite(files, "svd_regs.rs", EmitRegs(dev, RegsExclude, pool[1], pool[2]))
  /\ produced' = Append(produced,
       [op |-> op, pool |-> pool, dev |-> dev, out |-> << files'["svd_regs.rs"] >>])
  /\ result' = "ok"
  /\ pc' = "done"
  /\ UNCHANGED << addMode, mcu, outDirSet, svdState, runs, op, pool, dev, stepIx,
                  parsedLog, createdLog, schemaVars, opsVars, twiceVars, bandVars >>

\* generate_rest calling the emitter on the Device as parsed, the patch
\* function of the arm left out of its path.
EmitGenerateRestUnpatched ==
  /\ pc = "emit" /\ op = "rest"
  /\ emitLog' = Append(emitLog, [fn |-> "generate_rest",
                                 outputs |-> << "svd_reg_index.rs", "svd_interrupts.rs" >>,
                                 exclude |-> RestExclude, dev |-> parse_svd(SelectArm(mcu).file).dev])
  /\ files' = FileWrite(FileWrite(files, "svd_reg_index.rs",
                                  EmitIndex(parse_svd(SelectArm(mcu).file).dev, RestExclude, "stm32_reg_tokens")),
                        "svd_interrupts.rs", EmitInterrupts(parse_svd(SelectArm(mcu).file).dev, RestExclude))
  /\ produced' = Append(produced,
       [op |-> op, pool |-> pool, dev |-> parse_svd(SelectArm(mcu).file).dev,
        out |-> << files'["svd_reg_index.rs"], files'["svd_interrupts.rs"] >>])
  /\ result' = "ok"
  /\ pc' = "done"
  /\ UNCHANGED << addMode, mcu, outDirSet, svdState, runs, op, pool, dev, stepIx,
                  parsedLog, createdLog, schemaVars, opsVars, twiceVars, bandVars >>

\* dev.generate_rest(&mut reg_tokens, &mut interrupts, REG_EXCLUDE, "stm32_reg_tokens")
EmitGenerateRest ==
  /\ pc = "emit" /\ op = "rest"
  /\ emitLog' = Append(emitLog, [fn |-> "generate_rest",
                                 outputs |-> << "svd_reg_index.rs", "svd_interrupts.rs" >>,
                                 exclude |-> RestExclude, dev |-> dev])
  /\ files' = FileWrite(FileWrite(files, "svd_reg_index.rs",
                                  EmitIndex(dev, RestExclude, "stm32_reg_tokens")),
                        "svd_interrupts.rs", EmitInterrupts(dev, RestExclude))
  /\ produced' = Append(produced,
       [op |-> op, pool |-> pool, dev |-> dev,
        out |-> << files'["svd_reg_index.rs"], files'["svd_interrupts.rs"] >>])
  /\ result' = "ok"
  /\ pc' = "done"
  /\ UNCHANGED << addMode, mcu, outDirSet, svdState, runs, op, pool, dev, stepIx,
                  parsedLog, createdLog, schemaVars, opsVars, twiceVars, bandVars >>

AddModes == { "push", "insert" }

SvdStates == { "ok", "malformed", "stale" }

\* The vendor files hold none of the entities the patch programs add, so the
\* two behaviours of the library's add primitive agree in every run.
Init ==
  /\ addMode = "push"
  /\ mcu \in AllKeys \cup { "unset" }
  /\ outDirSet \in BOOLEAN
  /\ svdState \in SvdStates
  /\ files \in { [f \in OutFiles |-> Absent], [f \in OutFiles |-> Leftover(f)] }
  /\ runs = 0
  /\ pc = "idle"
  /\ op = "none"
  /\ pool = << >>
  /\ dev = NoDevice
  /\ stepIx = 0
  /\ result = "none"
  /\ parsedLog = << >>
  /\ createdLog = << >>
  /\ emitLog = << >>
  /\ produced = << >>
  /\ SchemaIdle /\ OpsIdle /\ TwiceIdle /\ BandIdle

Next ==
  \/ generate_regs
  \/ generate_rest
  \/ ReadOutDir
  \/ svd_deserialize
  \/ Parse
  \/ PatchStep
  \/ CreateRegs
  \/ CreateRegIndex
  \/ CreateInterrupts
  \/ EmitGenerateRegs
  \/ EmitGenerateRest

Spec == Init /\ [][Next]_vars

\* A step of a call that has begun: control moves on to another point, or
\* to the next step of the patch program.  The body of generate_regs and of
\* generate_rest is sequential code without a wait, so a call that has begun
\* keeps taking steps until it returns; of the steps of Next these are the
\* ones of ReadOutDir, svd_deserialize, Parse, PatchStep, the three creations
\* and the two emitter calls.
RunStep ==
  /\ pc \notin { "idle", "done" }
  /\ pc' \in { "select", "parse", "patch", "create", "create2", "emit", "done" }
  /\ stepIx' \in { stepIx, stepIx + 1 }

SpecLive == Init /\ [][Next]_vars /\ WF_<< pc, stepIx >>(RunStep)

(***************************************************************************)
(* SpecSchema: the crate is compiled under one value of stm32_mcu; the      *)
(* invocations of map_gpio_port! are processed in source order, and each    *)
(* one whose #[cfg] holds defines a port token set.                         *)
(***************************************************************************)
InitSchema ==
  /\ addMode = "push"
  /\ sKey \in AllKeys
  /\ sIx = 0
  /\ sTokens = << >>
  /\ PipeIdle /\ OpsIdle /\ TwiceIdle /\ BandIdle

ExpandPort ==
  /\ sIx < Len(Instantiations)
  /\ sKey \in Instantiations[sIx + 1].cfg
  /\ sTokens' = Append(sTokens, Expand(Instantiations[sIx + 1], sKey))
  /\ sIx' = sIx + 1
  /\ UNCHANGED << addMode, sKey, pipeVars, opsVars, twiceVars, bandVars >>

SkipPort ==
  /\ sIx < Len(Instantiations)
  /\ sKey \notin Instantiations[sIx + 1].cfg
  /\ sIx' = sIx + 1
  /\ UNCHANGED << addMode, sKey, sTokens, pipeVars, opsVars, twiceVars, bandVars >>

NextSchema == ExpandPort \/ SkipPort

SpecSchema == InitSchema /\ [][NextSchema]_vars

(***************************************************************************)
(* SpecOps: copy_reg and copy_field applied, with every choice of           *)
(* arguments, to a small Device that satisfies the Device invariants.       *)
(***************************************************************************)
MaxOps == 2

\* Two GPIO ports as two revisions of a vendor file describe them. In both
\* GPIOB lacks the field MODER1 of MODER and has OTYPER where GPIOA has BRR;
\* in the second GPIOB names the upper MODER bits MODERX, at bits 3..4.
SmallDevice(rev) ==
  [p \in { "GPIOA", "GPIOB" } |->
     IF p = "GPIOA"
       THEN << Register("MODER", 0, 32, << Field("MODER0", 0, 2), Field("MODER1", 2, 2) >>),
               Register("BRR", 4, 32, << Field("BR0", 0, 1) >>) >>
       ELSE << Register("MODER", 0, 32,
                        IF rev = 1 THEN << Field("MODER0", 0, 2) >>
                        ELSE << Field("MODER0", 0, 2), Field("MODERX", 3, 2) >>),
               Register("OTYPER", 4, 32, << Field("OT0", 0, 1) >>) >>]

OpPeriphs == { "GPIOA", "GPIOB", "GPIOZ" }

OpRegs == { "MODER", "BRR", "NOREG" }

OpFields == { "MODER0", "MODER1", "BR0", "NOFIELD" }

InitOps ==
  /\ addMode \in AddModes
  /\ oDev \in { SmallDevice(1), SmallDevice(2) }
  /\ oLast = NoOp
  /\ oCount = 0
  /\ PipeIdle /\ SchemaIdle /\ TwiceIdle /\ BandIdle

CopyReg ==
  /\ oCount < MaxOps
  /\ \E from \in OpPeriphs, to \in OpPeriphs, reg \in OpRegs :
       LET r == copy_reg(oDev, from, to, reg) IN
         /\ oDev' = r.dev
         /\ oLast' = [op |-> "copy_reg", from |-> from, to |-> to, reg |-> reg, field |-> "",
                      before |-> oDev, res |-> r.res]
  /\ oCount' = oCount + 1
  /\ UNCHANGED << addMode, pipeVars, schemaVars, twiceVars, bandVars >>

CopyField ==
  /\ oCount < MaxOps
  /\ \E from \in OpPeriphs, to \in OpPeriphs, reg \in OpRegs, field \in OpFields :
       LET r == copy_field(oDev, from, to, reg, field) IN
         /\ oDev' = r.dev
         /\ oLast' = [op |-> "copy_field", from |-> from, to |-> to, reg |-> reg,
                      field |-> field, before |-> oDev, res |-> r.res]
  /\ oCount' = oCount + 1
  /\ UNCHANGED << addMode, pipeVars, schemaVars, twiceVars, bandVars >>

NextOps == CopyReg \/ CopyField

SpecOps == InitOps /\ [][NextOps]_vars

(***************************************************************************)
(* SpecTwice: the patch program of a variant applied to the parsed Device   *)
(* of that variant and then again, step by step, to its own output.         *)
(***************************************************************************)
Passes == 2

TwiceProgram == MatchArm(tKey).patch

InitTwice ==
  /\ addMode \in AddModes
  /\ tKey \in SupportedKeys
  /\ tDev = VendorDevice(tKey)
  /\ tIx = 0
  /\ tPass = 0
  /\ tRes = "running"
  /\ PipeIdle /\ SchemaIdle /\ OpsIdle /\ BandIdle

TwiceStep ==
  /\ tRes = "running"
  /\ tIx < Len(TwiceProgram)
  /\ LET r == ApplyStep(tDev, TwiceProgram[tIx + 1]) IN
       /\ tDev' = r.dev
       /\ tRes' = IF r.res = "ok" THEN "running" ELSE r.res
       /\ tIx' = IF r.res = "ok" THEN tIx + 1 ELSE tIx
  /\ UNCHANGED << addMode, tKey, tPass, pipeVars, schemaVars, opsVars, bandVars >>

\* Ok(dev) at the end of the patch function.
TwicePassDone ==
  /\ tRes = "running"
  /\ tIx = Len(TwiceProgram)
  /\ tPass' = tPass + 1
  /\ tIx' = 0
  /\ tRes' = IF tPass + 1 = Passes THEN "ok" ELSE "running"
  /\ UNCHANGED << addMode, tKey, tDev, pipeVars, schemaVars, opsVars, bandVars >>

NextTwice == TwiceStep \/ TwicePassDone

SpecTwice == InitTwice /\ [][NextTwice]_vars


(***************************************************************************)
(* SpecBand: two GPIO ports of one variant each write the enable bit they   *)
(* own in the Shared clock-enable register. A field declared bit-band is    *)
(* written through its bit-band alias, one store the bus turns into an      *)
(* update of that bit alone; any other field is written by loading the      *)
(* word, changing the bit and storing the word.                             *)
(***************************************************************************)
\* The invocations compiled under key, by position.
Compiled(key) == { i \in DOMAIN Instantiations : key \in Instantiations[i].cfg }

\* BUSENR of the token set of an invocation under key.
EnableReg(inst, key) ==
  CHOOSE r \in Range(map_gpio_port(inst)) :
    r.block = "RCC" /\ r.name = "BUSENR" /\ CfgHolds(r.cfg, key) /\ r.mapped

\* The field of the enable register the invocation owns, and the kind
\* periph! declares for it: RCC { BUSENR { GPIOEN { RwRwRegFieldBitBand } } }.
EnableField(inst, key) ==
  LET fs == EnableReg(inst, key).fields IN
    fs[CHOOSE i \in DOMAIN fs : fs[i][1] = "GPIOEN"][2]

EnableAccessPlain(inst, key) == "RwRwRegField"

EnableAccess(inst, key) ==
  LET fs == GenericReg("RCC", "BUSENR").fields IN
    fs[CHOOSE i \in DOMAIN fs : fs[i][1] = "GPIOEN"][2]

BitBandKinds == { "RwRwRegFieldBitBand", "WoWoRegFieldBitBand", "RoRoRegFieldBitBand" }

\* The fields of the enable register the ports of the variant own.
EnableFields(key) == { EnableField(Instantiations[i], key) : i \in Compiled(key) }

OwnerField(o) == EnableField(Instantiations[bPorts[o]], bKey)

InitBand ==
  /\ addMode = "push"
  /\ bKey \in SupportedKeys
  /\ bPorts \in { p \in Compiled(bKey) \X Compiled(bKey) : p[1] < p[2] }
  /\ bWord0 \in { [f \in EnableFields(bKey) |->
                      IF f = OwnerField(1) THEN b[1] ELSE IF f = OwnerField(2) THEN b[2] ELSE 1] :
                    b \in { << 0, 1 >>, << 1, 0 >> } }
  /\ bWord = bWord0
  /\ bOwn \in [{ 1, 2 } -> { [pc |-> "idle", val |-> v, seen |-> << >>] : v \in { 0, 1 } }]
  /\ PipeIdle /\ SchemaIdle /\ OpsIdle /\ TwiceIdle

\* The next step of owner o's write of its enable bit.
OwnerWrite(o) ==
  /\ bOwn[o].pc # "done"
  /\ IF EnableAccess(Instantiations[bPorts[o]], bKey) \in BitBandKinds
       THEN /\ bWord' = [bWord EXCEPT ![OwnerField(o)] = bOwn[o].val]
            /\ bOwn' = [bOwn EXCEPT ![o].pc = "done"]
       ELSE IF bOwn[o].pc = "idle"
         THEN /\ bOwn' = [bOwn EXCEPT ![o].pc = "loaded", ![o].seen = bWord]
              /\ UNCHANGED bWord
         ELSE /\ bWord' = [bOwn[o].seen EXCEPT ![OwnerField(o)] = bOwn[o].val]
              /\ bOwn' = [bOwn EXCEPT ![o].pc = "done"]
  /\ UNCHANGED << addMode, bKey, bPorts, bWord0, pipeVars, schemaVars, opsVars, twiceVars >>

FirstOwnerWrite == OwnerWrite(1)

SecondOwnerWrite == OwnerWrite(2)

NextBand == FirstOwnerWrite \/ SecondOwnerWrite

SpecBand == InitBand /\ [][NextBand]_vars
(***************************************************************************)
(* Properties of the build script (Spec).                                   *)
(***************************************************************************)
\* The 27 values of stm32_mcu the build script supports.
Supported27 ==
  { "stm32f100", "stm32f101", "stm32f102", "stm32f103", "stm32f107",
    "stm32f401", "stm32f405", "stm32f407", "stm32f410", "stm32f411", "stm32f412",
    "stm32f413", "stm32f427", "stm32f429", "stm32f446", "stm32f469",
    "stm32l4x1", "stm32l4x2", "stm32l4x3", "stm32l4x5", "stm32l4x6",
    "stm32l4r5", "stm32l4r7", "stm32l4r9", "stm32l4s5", "stm32l4s7", "stm32l4s9" }

UnsupportedKey == mcu # "unset" /\ mcu \notin Supported27

NothingTouched ==
  /\ parsedLog = << >>
  /\ createdLog = << >>
  /\ emitLog = << >>
  /\ \A f \in OutFiles : files[f] \in { Absent, Leftover(f) }

\* C1 as stated: with a variant key outside the 27 supported keys, a finished
\* run of generate_regs or generate_rest has failed with the unsupported-variant
\* error, and no SVD file was parsed and no output file created or written.
C1_AsClaimed ==
  UnsupportedKey =>
    /\ NothingTouched
    /\ (pc = "done" => result = "UnsupportedVariant")

\* C1: with a variant key outside the 27 supported keys, generate_regs and
\* generate_rest fail before any SVD file is parsed and before any output file
\* is created or written; the failure is the unsupported-variant error when
\* OUT_DIR is set, and the error of the OUT_DIR lookup, which comes first,
\* when it is not.
C1_UnsupportedFailsBeforeIo ==
  UnsupportedKey =>
    /\ NothingTouched
    /\ pc \notin { "parse", "patch", "create", "create2", "emit" }
    /\ (pc = "done" =>
          result = IF outDirSet THEN "UnsupportedVariant" ELSE "EnvError")

C1_Witness ==
  /\ UnsupportedKey /\ outDirSet
  /\ pc = "done" /\ result = "UnsupportedVariant" /\ op = "rest" /\ runs = 2

\* The peripherals that have an entry in the contents of the output file f.
PeriphsInFile(f) ==
  LET cs == files[f].chunks IN
    IF f = "svd_regs.rs"
      THEN UNION { { t[1] : t \in cs[i].regs } \cup { t[1] : t \in cs[i].fields } :
                   i \in DOMAIN cs }
    ELSE IF f = "svd_reg_index.rs"
      THEN UNION { { t[1] : t \in cs[i].index } : i \in DOMAIN cs }
    ELSE UNION { cs[i].interrupts : i \in DOMAIN cs }

CorePeripheralNames == { "FPU", "FPU_CPACR", "ITM", "MPU", "NVIC", "SCB", "STK", "TPIU" }

\* C2: every call of the emitter, for each of the three artifacts and every
\* variant, is given the exclusion set {FPU, FPU_CPACR, ITM, MPU, NVIC, SCB,
\* STK, TPIU}, and no artifact holds an entry for a peripheral of that set.
C2_ExclusionSetEverywhere ==
  /\ \A i \in DOMAIN emitLog : emitLog[i].exclude = CorePeripheralNames
  /\ \A f \in OutFiles : PeriphsInFile(f) \cap CorePeripheralNames = {}

C2_Witness ==
  /\ pc = "done" /\ result = "ok" /\ op = "rest"
  /\ "NVIC" \in DOMAIN dev
  /\ "RCC" \in PeriphsInFile("svd_reg_index.rs")
  /\ "RCC" \in PeriphsInFile("svd_interrupts.rs")
  /\ "RCC" \in PeriphsInFile("svd_regs.rs")

\* C3: two successful runs with the same variant key, the same vendor file and
\* the same pool arguments hold equal Devices after patching and leave equal
\* artifacts behind.
C3_Deterministic ==
  \A i, j \in DOMAIN produced :
    (produced[i].op = produced[j].op /\ produced[i].pool = produced[j].pool) =>
      /\ produced[i].dev = produced[j].dev
      /\ produced[i].out = produced[j].out

C3_Witness ==
  /\ Len(produced) = 2
  /\ produced[1].op = "regs" /\ produced[2].op = "regs"
  /\ produced[1].pool = produced[2].pool
  /\ Program # << >>
  /\ produced[2].out[1].chunks # << >>

(***************************************************************************)
(* Properties of the patch operations (SpecTwice, SpecOps).                 *)
(***************************************************************************)
\* C4 as stated: for a variant with a non-empty patch program, the second
\* application of the program, to the Device its first application produced,
\* fails.
C4_AsClaimed ==
  (MatchArm(tKey).patch # << >> /\ tPass >= 1 /\ tRes # "running") => tRes # "ok"

\* The ranges of bits two fields occupy intersect.
Overlap(f, g) == f.bit < g.bit + g.width /\ g.bit < f.bit + f.width

CopyRegOnDuplicate ==
  /\ oLast.op = "copy_reg"
  /\ oLast.from \in DOMAIN oLast.before
  /\ oLast.to \in DOMAIN oLast.before
  /\ IndexOf(oLast.before[oLast.from], oLast.reg) # 0
  /\ IndexOf(oLast.before[oLast.to], oLast.reg) # 0

\* C5 as stated: copy_reg fails with a duplicate-register error whenever the
\* target peripheral already owns a register of that name, and the register the
\* target owns is then neither replaced nor duplicated.
C5_AsClaimed ==
  CopyRegOnDuplicate =>
    /\ oLast.res = "DuplicateRegister"
    /\ oDev[oLast.to] = oLast.before[oLast.to]

CopyFieldOnOverlap ==
  /\ oLast.op = "copy_field"
  /\ oLast.from \in DOMAIN oLast.before
  /\ oLast.to \in DOMAIN oLast.before
  /\ IndexOf(oLast.before[oLast.from], oLast.reg) # 0
  /\ IndexOf(oLast.before[oLast.to], oLast.reg) # 0
  /\ LET src == oLast.before[oLast.from][IndexOf(oLast.before[oLast.from], oLast.reg)]
         dst == oLast.before[oLast.to][IndexOf(oLast.before[oLast.to], oLast.reg)]
     IN /\ IndexOf(src.fields, oLast.field) # 0
        /\ \E k \in DOMAIN dst.fields :
             Overlap(dst.fields[k], src.fields[IndexOf(src.fields, oLast.field)])

\* C6 as stated: copy_field fails with a field-overlap error whenever the target
\* register already holds a field whose bits overlap the copied field, and the
\* fields of the target register are then unchanged.
C6_AsClaimed ==
  CopyFieldOnOverlap =>
    /\ oLast.res = "FieldOverlap"
    /\ oDev[oLast.to] = oLast.before[oLast.to]

FieldsDisjointAndInside(reg) ==
  /\ \A i \in DOMAIN reg.fields :
       reg.fields[i].bit >= 0 /\ reg.fields[i].bit + reg.fields[i].width <= reg.size
  /\ \A i, j \in DOMAIN reg.fields : i # j => ~Overlap(reg.fields[i], reg.fields[j])

\* C7 as stated: starting from a Device whose registers all have pairwise
\* disjoint fields inside the register width, after any sequence of patch
\* operations every register still has pairwise disjoint fields inside its
\* width.
C7_AsClaimed ==
  \A p \in DOMAIN oDev : \A i \in DOMAIN oDev[p] : FieldsDisjointAndInside(oDev[p][i])

\* C8 as stated: starting from a Device whose peripherals have unique register
\* offsets, after any sequence of patch operations no peripheral has two
\* registers at one byte offset.
C8_AsClaimed ==
  \A p \in DOMAIN oDev :
    \A i, j \in DOMAIN oDev[p] : i # j => oDev[p][i].offset # oDev[p][j].offset

(***************************************************************************)
(* Properties of the GPIO schema (SpecSchema).                              *)
(***************************************************************************)
TokensOf(ty) == { t \in Range(sTokens) : t.ty = ty }

\* The layout of a token set: per register its block, generic name, mapped
\* register, kind and Shared marker, and its fields with their kinds; the
\* mapped field names of the GPIO block belong to it, those of the RCC block
\* are the port's own.
Layout(t) ==
  { [block |-> r.block, name |-> r.name, to |-> r.to, kind |-> r.kind, shared |-> r.shared,
     fields |-> { << f[1], IF r.block = "RCC" THEN "" ELSE f[2], f[3] >> : f \in r.fields }] :
    r \in t.regs }

GpioBlockOf(t) == { r.periph : r \in { x \in t.regs : x.block = "GPIO" } }

\* The RCC fields a token set owns, as <<register, field>>.
RccFields(t) ==
  UNION { { << r.to, f[2] >> : f \in r.fields } : r \in { x \in t.regs : x.block = "RCC" } }

\* C9: under every supported variant key the expansions of GPIO port A and of
\* GPIO port B have the same registers, the same fields per register and the
\* same access kinds, and differ in type (GpioA, GpioB), extraction macro
\* (periph_gpio_a, periph_gpio_b), GPIO block (GPIOA, GPIOB) and in every RCC
\* enable, reset and sleep field.
C9_PortsAlikeButDistinct ==
  /\ \A a \in TokensOf("GpioA"), b \in TokensOf("GpioB") :
       /\ Layout(a) = Layout(b)
       /\ a.macro = "periph_gpio_a" /\ b.macro = "periph_gpio_b"
       /\ GpioBlockOf(a) = { "GPIOA" } /\ GpioBlockOf(b) = { "GPIOB" }
       /\ RccFields(a) \cap RccFields(b) = {}
       /\ Cardinality(RccFields(a)) = Cardinality(RccFields(b))
  /\ (sIx = Len(Instantiations) /\ sKey \in Supported27) =>
       TokensOf("GpioA") # {} /\ TokensOf("GpioB") # {}

C9_Witness ==
  /\ sIx = Len(Instantiations)
  /\ sKey = "stm32l4x5"
  /\ \E a \in TokensOf("GpioA"), b \in TokensOf("GpioB") :
       /\ Cardinality(a.regs) > 10
       /\ \E r \in b.regs : r.name = "ASCR"

\* C10: under every variant key, two distinct port instances never own the
\* same field of a Shared RCC register: no enable, reset or sleep bit is named
\* by more than one port.
C10_SharedFieldsDisjoint ==
  \A i, j \in DOMAIN sTokens :
    i # j =>
      /\ sTokens[i].ty # sTokens[j].ty
      /\ RccFields(sTokens[i]) \cap RccFields(sTokens[j]) = {}

C10_Witness ==
  /\ sIx = Len(Instantiations)
  /\ sKey = "stm32f407"
  /\ Len(sTokens) = 11
  /\ \A i \in DOMAIN sTokens : Cardinality(RccFields(sTokens[i])) = 3


(***************************************************************************)
(* Properties of the Shared enable register (SpecBand).                     *)
(***************************************************************************)
\* C11: when two GPIO port owners concurrently write their own enable bits of
\* the same Shared clock-enable register with the bit-band single-bit
\* discipline, then under every interleaving each owner's bit holds the value
\* that owner wrote once its write is done, holds its earlier value until
\* then, and no other bit of the register changes.
C11_BitBandWritesIndependent ==
  /\ \A o \in DOMAIN bOwn :
       bWord[OwnerField(o)] =
         IF bOwn[o].pc = "done" THEN bOwn[o].val ELSE bWord0[OwnerField(o)]
  /\ \A f \in DOMAIN bWord : (\A o \in DOMAIN bOwn : f # OwnerField(o)) => bWord[f] = bWord0[f]
  /\ \A o \in DOMAIN bOwn :
       /\ EnableReg(Instantiations[bPorts[o]], bKey).shared
       /\ EnableReg(Instantiations[bPorts[o]], bKey).to
            = EnableReg(Instantiations[bPorts[1]], bKey).to

C11_Witness ==
  /\ bKey = "stm32f407"
  /\ Instantiations[bPorts[1]].port_ty = "GpioA"
  /\ Instantiations[bPorts[2]].port_ty = "GpioB"
  /\ bOwn[1].pc = "done" /\ bOwn[2].pc = "done"
  /\ bOwn[1].val = 1 /\ bOwn[2].val = 0
  /\ bWord0[OwnerField(1)] = 0 /\ bWord0[OwnerField(2)] = 1
  /\ bWord[OwnerField(1)] = 1 /\ bWord[OwnerField(2)] = 0

(***************************************************************************)
(* Further properties of the GPIO schema (SpecSchema).                      *)
(***************************************************************************)
ExclusiveRegisterNames ==
  { "AFRL", "AFRH", "ASCR", "BRR", "BSRR", "CRL", "CRH", "IDR", "LCKR", "MODER", "ODR",
    "OSPEEDR", "OTYPER", "PUPDR" }

GpioBlockNames ==
  { "GPIOA", "GPIOB", "GPIOC", "GPIOD", "GPIOE", "GPIOF", "GPIOG", "GPIOH", "GPIOI",
    "GPIOJ", "GPIOK" }

\* C12: under every variant key, a register that appears in the token sets of
\* two distinct port instances is marked Shared, and every register not marked
\* Shared is one of AFRL, AFRH, ASCR, BRR, BSRR, CRL, CRH, IDR, LCKR, MODER,
\* ODR, OSPEEDR, OTYPER, PUPDR and is mapped to a block GPIOA..GPIOK that
\* exactly one port instance uses.
C12_AliasedOnlyIfShared ==
  \A i, j \in DOMAIN sTokens :
    \A r \in sTokens[i].regs :
      /\ \A q \in sTokens[j].regs :
           (i # j /\ r.periph = q.periph /\ r.to = q.to) => (r.shared /\ q.shared)
      /\ ~r.shared =>
           /\ r.name \in ExclusiveRegisterNames
           /\ r.periph \in GpioBlockNames
           /\ i # j => \A q \in sTokens[j].regs : q.periph # r.periph
      /\ r.shared => r.name \notin ExclusiveRegisterNames

C12_Witness ==
  /\ sIx = Len(Instantiations)
  /\ sKey = "stm32f429"
  /\ Len(sTokens) = 11
  /\ \E i, j \in DOMAIN sTokens :
       /\ i # j
       /\ \E r \in sTokens[i].regs, q \in sTokens[j].regs :
            r.periph = q.periph /\ r.to = q.to /\ r.shared
       /\ \E r \in sTokens[i].regs : ~r.shared /\ r.name = "MODER"

(***************************************************************************)
(* Failure and ordering properties of the build script (Spec).              *)
(***************************************************************************)
\* C13: in every variant patch program, when a patch step fails the run ends
\* there with that step's failure: no later step of the program is executed
\* and the emitter is not invoked for that run.
C13_FirstFailureAborts ==
  [][/\ (pc = "patch" /\ ApplyStep(dev, Program[stepIx + 1]).res # "ok") =>
          /\ pc' = "done"
          /\ result' = ApplyStep(dev, Program[stepIx + 1]).res
          /\ stepIx' = stepIx
          /\ emitLog' = << >>
          /\ createdLog' = << >>
          /\ files' = files
     /\ (pc = "done" /\ result # "ok" /\ runs' = runs) =>
          /\ stepIx' = stepIx
          /\ emitLog' = emitLog
          /\ files' = files]_vars

C13_Witness ==
  /\ pc = "done"
  /\ result = "LookupError"
  /\ stepIx >= 1
  /\ stepIx + 1 < Len(Program)
  /\ emitLog = << >>
  /\ parsedLog # << >>

\* C14: when variant resolution, parsing or a patch step fails during
\* generate_regs or generate_rest, that invocation has created, truncated and
\* written none of svd_regs.rs, svd_reg_index.rs and svd_interrupts.rs: up to
\* the end of the select, parse and patch phase the output directory is as the
\* invocation found it.
C14_NoOutputBeforePatched ==
  [][/\ pc \in { "out_dir", "select", "parse", "patch" } =>
          /\ files' = files
          /\ createdLog' = << >>
          /\ emitLog' = << >>
     /\ (pc \in { "out_dir", "select", "parse", "patch" } /\ pc' = "done") =>
          result' \in { "EnvError", "UnsupportedVariant", "ParseError", "LookupError" }]_vars

C14_Witness ==
  /\ pc = "done"
  /\ result = "LookupError"
  /\ stepIx >= 1
  /\ createdLog = << >>
  /\ \A f \in OutFiles : files[f] = Leftover(f)

\* C15: when an output file cannot be created, generate_regs and generate_rest
\* return the error without invoking the emitter and without removing or
\* restoring any output that exists; in generate_rest a failure to create
\* svd_interrupts.rs leaves the svd_reg_index.rs it has just created in place.
C15_CreateFailureLeavesOutputs ==
  [][/\ (pc \in { "create", "create2" } /\ pc' = "done") =>
          /\ result' = "IoError"
          /\ emitLog' = << >>
          /\ files' = files
     /\ (pc = "create2" /\ pc' = "done") =>
          /\ createdLog' = << "svd_reg_index.rs" >>
          /\ files'["svd_reg_index.rs"] = [exists |-> TRUE, chunks |-> << >>]
     /\ (pc = "done" /\ result = "IoError" /\ runs' = runs) =>
          /\ emitLog' = << >>
          /\ files' = files]_vars

C15_Witness ==
  /\ pc = "done"
  /\ result = "IoError"
  /\ op = "rest"
  /\ createdLog = << "svd_reg_index.rs" >>
  /\ files["svd_reg_index.rs"] = [exists |-> TRUE, chunks |-> << >>]
  /\ files["svd_interrupts.rs"] = Leftover("svd_interrupts.rs")
  /\ files["svd_regs.rs"] = Leftover("svd_regs.rs")

UnpatchedKeys == { "stm32f100", "stm32f101", "stm32f103", "stm32f107" }

\* C16: for the variants with no patch program (stm32f100, stm32f101,
\* stm32f103, stm32f107) the Device handed to the emitter is exactly the
\* parsed Device: no patch step runs between parsing and emission.
C16_UnpatchedDeviceEmitted ==
  mcu \in UnpatchedKeys =>
    /\ pc # "patch"
    /\ stepIx = 0
    /\ pc \in { "create", "create2", "emit" } => dev = parse_svd(MatchArm(mcu).file).dev
    /\ \A i \in DOMAIN emitLog : emitLog[i].dev = parse_svd(MatchArm(mcu).file).dev

C16_Witness ==
  /\ mcu = "stm32f103"
  /\ pc = "done" /\ result = "ok" /\ op = "rest"
  /\ parsedLog # << >>
  /\ Len(emitLog) = 1
  /\ "GPIOG" \in DOMAIN emitLog[1].dev

\* C17: each of the 27 supported variant keys resolves, by exact
\* case-sensitive match, to exactly one SVD file and one patch program; the
\* file of a key is the file of no other key and is taken from the files
\* directory of the crate; keys that differ from a supported key in case or
\* length resolve to nothing.
C17_OneFilePerKey ==
  /\ Len(parsedLog) <= 1
  /\ (mcu \in Supported27 /\ pc \in { "patch", "create", "create2", "emit" }) =>
       /\ Len(parsedLog) = 1
       /\ Program = MatchArm(mcu).patch
  /\ \A i \in DOMAIN parsedLog :
       /\ mcu \in Supported27
       /\ parsedLog[i][1] = "CARGO_MANIFEST_DIR"
       /\ parsedLog[i][2] = "files"
       /\ parsedLog[i][3] = MatchArm(mcu).file
       /\ \A k \in Supported27 \ { mcu } : MatchArm(k).file # parsedLog[i][3]

C17_Witness ==
  /\ mcu = "stm32l4s9"
  /\ pc = "patch"
  /\ parsedLog = << << "CARGO_MANIFEST_DIR", "files", "STM32L4S9.svd" >> >>
  /\ Program = patch_stm32l4plus

(***************************************************************************)
(* The schema against the selector (SpecSchema).                            *)
(***************************************************************************)
\* The keys the match of svd_deserialize accepts.
Accepted(key) == ~MatchArm(key).bail

GuardAccepted(cfg) == cfg = AnyMcu \/ \A k \in cfg : Accepted(k)

\* C18: the variant keys the selector accepts are the keys under which the
\* GPIO schema expands to at least one port instance: every accepted key
\* defines at least the ports A, B and C, and every key named in a guard of
\* the schema is accepted by the selector.
C18_SelectorAndSchemaAgree ==
  /\ \A i \in DOMAIN Instantiations :
       /\ GuardAccepted(Instantiations[i].cfg)
       /\ \A r \in Range(map_gpio_port(Instantiations[i])) : GuardAccepted(r.cfg)
  /\ \A r \in Range(GpioPortPeriph) : GuardAccepted(r.cfg)
  /\ sIx = Len(Instantiations) =>
       /\ Accepted(sKey) <=> sTokens # << >>
       /\ Accepted(sKey) => { "GpioA", "GpioB", "GpioC" } \subseteq { t.ty : t \in Range(sTokens) }

C18_Witness ==
  /\ sIx = Len(Instantiations)
  /\ sKey = "stm32f102"
  /\ { t.ty : t \in Range(sTokens) } = { "GpioA", "GpioB", "GpioC", "GpioD" }

F1Keys == { "stm32f100", "stm32f101", "stm32f102", "stm32f103", "stm32f107" }

L4PlusKeys == { "stm32l4r5", "stm32l4r7", "stm32l4r9", "stm32l4s5", "stm32l4s7", "stm32l4s9" }

F4L4Keys == Supported27 \ F1Keys

RegisterNames(t) == { r.name : r \in t.regs }

\* C20: the expansion of the GPIO schema selects registers by variant: BSRR,
\* IDR, LCKR and ODR under every key; CRL and CRH exactly under the five F1
\* keys; MODER, OTYPER, OSPEEDR, PUPDR, AFRL, AFRH and the sleep-mode enable
\* register exactly under the 22 F4 and L4 keys; BRR exactly under the F1 keys,
\* stm32l4x6 and the six L4+ keys; ASCR only under stm32l4x5 and stm32l4x6. So
\* every port has exactly one of the two pin-configuration families.
C20_RegistersByVariant ==
  \A i \in DOMAIN sTokens :
    LET names == RegisterNames(sTokens[i]) IN
      /\ { "BUSENR", "BUSRSTR", "BSRR", "IDR", "LCKR", "ODR" } \subseteq names
      /\ \A n \in { "CRL", "CRH" } : n \in names <=> sKey \in F1Keys
      /\ \A n \in { "MODER", "OTYPER", "OSPEEDR", "PUPDR", "AFRL", "AFRH", "BUSSMENR" } :
           n \in names <=> sKey \in F4L4Keys
      /\ "BRR" \in names <=> sKey \in F1Keys \cup { "stm32l4x6" } \cup L4PlusKeys
      /\ "ASCR" \in names => sKey \in { "stm32l4x5", "stm32l4x6" }
      /\ ("CRL" \in names) # ("MODER" \in names)
      /\ Cardinality(names) = Cardinality(sTokens[i].regs)

C20_Witness ==
  /\ sIx = Len(Instantiations)
  /\ sKey = "stm32l4x6"
  /\ \E i \in DOMAIN sTokens :
       /\ sTokens[i].ty = "GpioA"
       /\ { "BRR", "ASCR", "MODER", "BUSSMENR" } \subseteq RegisterNames(sTokens[i])
       /\ "CRL" \notin RegisterNames(sTokens[i])
  /\ \E i \in DOMAIN sTokens :
       sTokens[i].ty = "GpioI" /\ "ASCR" \notin RegisterNames(sTokens[i])

(***************************************************************************)
(* The pool arguments (Spec).                                               *)
(***************************************************************************)
\* The successful runs of generate_regs with pool_size = size.
RegsRuns(size) ==
  { i \in DOMAIN produced : produced[i].op = "regs" /\ produced[i].pool[2] = size }

ChunksOf(i) == produced[i].out[1].chunks

\* The register and field definitions the runs of a set emitted together.
RegsEmitted(is) == UNION { UNION { ChunksOf(i)[c].regs : c \in DOMAIN ChunksOf(i) } : i \in is }

FieldsEmitted(is) == UNION { UNION { ChunksOf(i)[c].fields : c \in DOMAIN ChunksOf(i) } : i \in is }

\* C19: the pool arguments of generate_regs decide only how the register
\* definitions are partitioned: for every pool size the pools together hold
\* every register and field definition of the patched Device outside the
\* exclusion set, the same set for any two pool configurations, and every pool
\* holds only such definitions; what generate_rest produces is determined by
\* the Device alone.
C19_PoolsOnlyPartition ==
  /\ \A size \in { 1, 2 } :
       \A i \in RegsRuns(size) :
         /\ RegsEmitted({ i }) \subseteq RegDefs(produced[i].dev, CorePeripheralNames)
         /\ FieldsEmitted({ i }) \subseteq FieldDefs(produced[i].dev, CorePeripheralNames)
         /\ { produced[j].pool[1] : j \in RegsRuns(size) } = 1..size =>
              /\ RegsEmitted(RegsRuns(size)) = RegDefs(produced[i].dev, CorePeripheralNames)
              /\ FieldsEmitted(RegsRuns(size)) = FieldDefs(produced[i].dev, CorePeripheralNames)
  /\ \A i \in DOMAIN produced :
       produced[i].op = "rest" =>
         /\ produced[i].pool = << >>
         /\ produced[i].out[1].chunks
              = << EmitIndex(produced[i].dev, CorePeripheralNames, "stm32_reg_tokens") >>
         /\ produced[i].out[2].chunks = << EmitInterrupts(produced[i].dev, CorePeripheralNames) >>

C19_Witness ==
  /\ Len(produced) = 2
  /\ produced[1].pool = << 2, 2 >>
  /\ produced[2].pool = << 1, 2 >>
  /\ RegsEmitted({ 1 }) # {} /\ RegsEmitted({ 2 }) # {}
  /\ RegsEmitted({ 1 }) \cap RegsEmitted({ 2 }) = {}
  /\ RegsEmitted({ 1, 2 }) = RegDefs(dev, CorePeripheralNames)

(***************************************************************************)
(* Access kinds of shared registers (SpecSchema).                           *)
(***************************************************************************)
\* The field kinds that give bit-band access.
BitBandFieldKinds == { "RwRwRegFieldBitBand", "RoRwRegFieldBitBand", "WoRwRegFieldBitBand" }

\* C21: every register marked Shared, in the declaration and in every port
\* token, is one of the three RCC bus registers (enable, reset, sleep-mode
\* enable), is declared with bit-band register access and has only bit-band
\* fields; no register of the GPIO block is Shared.
C21_SharedIsBitBand ==
  /\ \A g \in Range(GpioPortPeriph) :
       /\ g.shared <=> g.block = "RCC"
       /\ g.shared => g.name \in { "BUSENR", "BUSRSTR", "BUSSMENR" }
  /\ \A i \in DOMAIN sTokens :
       \A r \in sTokens[i].regs :
         /\ r.shared <=> r.block = "RCC"
         /\ r.block = "GPIO" => ~r.shared
         /\ r.shared =>
              /\ r.name \in { "BUSENR", "BUSRSTR", "BUSSMENR" }
              /\ r.kind = "RwRegBitBand"
              /\ r.fields # {}
              /\ \A f \in r.fields : f[3] \in BitBandFieldKinds

C21_Witness ==
  /\ sIx = Len(Instantiations)
  /\ \E i \in DOMAIN sTokens :
       /\ { r.name : r \in { x \in sTokens[i].regs : x.shared } }
            = { "BUSENR", "BUSRSTR", "BUSSMENR" }
       /\ \E r \in sTokens[i].regs : ~r.shared /\ r.kind = "RwReg"

(***************************************************************************)
(* The order of the patch steps (Spec).                                     *)
(***************************************************************************)
\* The position of step s in a program, 0 when the program does not call it.
StepPos(program, s) ==
  IF \E i \in DOMAIN program : program[i] = s
    THEN CHOOSE i \in DOMAIN program : program[i] = s
    ELSE 0

\* The peripherals a step looks up: its targets, and its donor if it has one.
Needs(s) ==
  { StepOp(s).targets[i] : i \in DOMAIN StepOp(s).targets }
    \cup (IF StepOp(s).donor = "" THEN {} ELSE { StepOp(s).donor })

\* Every step of a program that looks up a peripheral the program creates
\* comes after the step that creates it.
CreatedBeforeUse(program) ==
  \A i, j \in DOMAIN program :
    (/\ StepOp(program[i]).kind = "add_periph"
     /\ i # j
     /\ StepOp(program[i]).targets[1] \in Needs(program[j])) => i < j

\* C23: the steps of a patch program run in the listed order, one at a time,
\* none skipped and none repeated, and in that order every step finds what it
\* looks up: tim::add_tim3 comes before tim::fix_tim3_1 and tim::fix_tim3_2 on
\* stm32l4x3, dmamux::add_dmamux1 is the first step of the L4+ keys, and on
\* the vendor file the program was written for no step fails.
C23_StepsInListedOrder ==
  [][/\ pc = "patch" =>
          /\ stepIx < Len(MatchArm(mcu).patch)
          /\ stepIx = 0 =>
               /\ CreatedBeforeUse(MatchArm(mcu).patch)
               /\ mcu = "stm32l4x3" =>
                    /\ 0 < StepPos(MatchArm(mcu).patch, "tim::add_tim3")
                    /\ StepPos(MatchArm(mcu).patch, "tim::add_tim3")
                         < StepPos(MatchArm(mcu).patch, "tim::fix_tim3_1")
                    /\ StepPos(MatchArm(mcu).patch, "tim::add_tim3")
                         < StepPos(MatchArm(mcu).patch, "tim::fix_tim3_2")
               /\ mcu \in L4PlusKeys => MatchArm(mcu).patch[1] = "dmamux::add_dmamux1"
          /\ svdState = "ok" => ApplyStep(dev, MatchArm(mcu).patch[stepIx + 1]).res = "ok"
          /\ \/ pc' = "done" /\ result' # "ok" /\ svdState # "ok"
             \/ /\ stepIx' = stepIx + 1
                /\ dev' = ApplyStep(dev, MatchArm(mcu).patch[stepIx + 1]).dev
                /\ pc' = IF stepIx' = Len(MatchArm(mcu).patch) THEN "create" ELSE "patch"
     /\ pc # "patch" => (stepIx' = stepIx \/ stepIx' = 0)
     /\ pc \in { "create", "create2", "emit" } => stepIx = Len(MatchArm(mcu).patch)
    ]_vars

C23_Witness ==
  /\ mcu = "stm32l4x3"
  /\ svdState = "ok"
  /\ pc = "patch"
  /\ stepIx = StepPos(MatchArm(mcu).patch, "tim::fix_tim3_2") - 1
  /\ "TIM3" \in DOMAIN dev
  /\ "TIM3" \notin DOMAIN VendorDevice(mcu)
  /\ \E i \in DOMAIN dev["TIM3"][1].fields : dev["TIM3"][1].fields[i].name = "TIM_FIX_TIM3_1"

(***************************************************************************)
(* What the emitter receives (Spec).                                        *)
(***************************************************************************)
\* The outcome of the whole patch program of key on the Device parsed from
\* the key's file.
FullyPatched(key) ==
  ApplyProgram(parse_svd(MatchArm(key).file).dev, MatchArm(key).patch, 1)

\* C24: the emitter only ever receives a Device on which the whole patch
\* program of the variant succeeded: a run that emits has parsed its file
\* first, has run every step of the program after that, and the Device of
\* every emitter call is the parsed Device with the whole program applied,
\* never the raw or a partly patched one.
C24_OnlyFullyPatchedEmitted ==
  [][/\ Len(emitLog) <= Len(parsedLog)
     /\ pc \in { "patch", "create", "create2", "emit" } => Len(emitLog) < Len(parsedLog)
     /\ pc # "emit" => (emitLog' = emitLog \/ emitLog' = << >>)
     /\ pc = "emit" =>
          LET full == FullyPatched(mcu) IN
            /\ mcu \in SupportedKeys
            /\ parse_svd(MatchArm(mcu).file).res = "ok"
            /\ stepIx = Len(MatchArm(mcu).patch)
            /\ full.res = "ok"
            /\ dev = full.dev
            /\ Len(emitLog') = Len(emitLog) + 1
            /\ emitLog'[Len(emitLog')].dev = full.dev
            /\ produced'[Len(produced')].dev = full.dev
    ]_vars

C24_Witness ==
  /\ mcu = "stm32f102"
  /\ pc = "done" /\ result = "ok"
  /\ Len(parsedLog) = 1 /\ Len(emitLog) = 1
  /\ Len(produced) = 2
  /\ produced[1].op # produced[2].op
  /\ emitLog[1].dev # parse_svd(MatchArm(mcu).file).dev
  /\ emitLog[1].dev = FullyPatched(mcu).dev

(***************************************************************************)
(* The effect of copy_reg and copy_field (SpecOps).                         *)
(***************************************************************************)
\* The entities of a sequence whose name is not n, in their order.
OthersThan(s, n) == SelectSeq(s, LAMBDA e : e.name # n)

\* The first entity named n of a sequence that holds one.
Named(s, n) == s[IndexOf(s, n)]

\* The last operation was a copy_reg that returned normally.
CopyRegDone == oLast.op = "copy_reg" /\ oLast.res = "ok"

CopyFieldDone == oLast.op = "copy_field" /\ oLast.res = "ok"

\* C25: a copy_reg that succeeds leaves in the target peripheral a register
\* equal to the source register, fields included, and changes neither the
\* source register, nor the registers of the target under other names, nor any
\* other peripheral; when the target had no register of that name it is the
\* old target with that one register added.  A copy_field that succeeds
\* leaves in the named register of the target a field equal to the source
\* field and changes neither the register's other attributes, nor its fields
\* under other names, nor any other register or peripheral; when the register
\* had no field of that name it is the old register with that one field added.
C25_CopyAddsOnlyWhatItCopies ==
  /\ CopyRegDone =>
       LET b   == oLast.before
           src == Named(b[oLast.from], oLast.reg)
       IN /\ DOMAIN oDev = DOMAIN b
          /\ \A p \in DOMAIN b \ { oLast.to } : oDev[p] = b[p]
          /\ \E i \in DOMAIN oDev[oLast.to] : oDev[oLast.to][i] = src
          /\ \E i \in DOMAIN oDev[oLast.from] : oDev[oLast.from][i] = src
          /\ OthersThan(oDev[oLast.to], oLast.reg) = OthersThan(b[oLast.to], oLast.reg)
          /\ IndexOf(b[oLast.to], oLast.reg) = 0 => oDev[oLast.to] = Append(b[oLast.to], src)
  /\ CopyFieldDone =>
       LET b     == oLast.before
           field == Named(Named(b[oLast.from], oLast.reg).fields, oLast.field)
           i     == IndexOf(b[oLast.to], oLast.reg)
           old   == b[oLast.to][i]
           new   == oDev[oLast.to][i]
       IN /\ DOMAIN oDev = DOMAIN b
          /\ \A p \in DOMAIN b \ { oLast.to } : oDev[p] = b[p]
          /\ DOMAIN oDev[oLast.to] = DOMAIN b[oLast.to]
          /\ \A j \in DOMAIN b[oLast.to] \ { i } : oDev[oLast.to][j] = b[oLast.to][j]
          /\ [new EXCEPT !.fields = << >>] = [old EXCEPT !.fields = << >>]
          /\ \E k \in DOMAIN new.fields : new.fields[k] = field
          /\ OthersThan(new.fields, oLast.field) = OthersThan(old.fields, oLast.field)
          /\ IndexOf(old.fields, oLast.field) = 0 => new.fields = Append(old.fields, field)

C25_Witness ==
  /\ oCount = 2
  /\ CopyFieldDone
  /\ oLast.from = "GPIOA" /\ oLast.to = "GPIOB"
  /\ oLast.reg = "MODER" /\ oLast.field = "MODER1"
  /\ IndexOf(Named(oLast.before["GPIOB"], "MODER").fields, "MODER1") = 0
  /\ IndexOf(Named(oDev["GPIOB"], "MODER").fields, "MODER1") # 0
  /\ Len(oLast.before["GPIOB"]) = 3
  /\ Named(oDev["GPIOB"], "BRR") = Named(oDev["GPIOA"], "BRR")

\* The last operation named a source peripheral, source register, source
\* field, target peripheral or target register the Device did not hold.
LookupMissing ==
  /\ oLast.op \in { "copy_reg", "copy_field" }
  /\ LET b == oLast.before IN
       \/ oLast.from \notin DOMAIN b
       \/ oLast.to \notin DOMAIN b
       \/ IndexOf(b[oLast.from], oLast.reg) = 0
       \/ /\ oLast.op = "copy_field"
          /\ \/ IndexOf(Named(b[oLast.from], oLast.reg).fields, oLast.field) = 0
             \/ IndexOf(b[oLast.to], oLast.reg) = 0

\* C26: a copy_reg or copy_field that names a source peripheral, source
\* register or source field, or a target peripheral or (copy_field) target
\* register, that the Device does not hold fails with a lookup error and
\* leaves the Device as it was; an operation that found all of them succeeds.
C26_MissingNameFailsUnchanged ==
  /\ LookupMissing => oLast.res = "LookupError" /\ oDev = oLast.before
  /\ (oLast.op # "none" /\ ~LookupMissing) => oLast.res = "ok"

C26_Witness ==
  /\ oCount = 2
  /\ oLast.op = "copy_field"
  /\ oLast.from = "GPIOA" /\ oLast.to = "GPIOB" /\ oLast.reg = "BRR" /\ oLast.field = "BR0"
  /\ IndexOf(oLast.before["GPIOB"], "BRR") = 0
  /\ oLast.res = "LookupError"
  /\ oDev = oLast.before
  /\ oDev # SmallDevice(1) /\ oDev # SmallDevice(2)

(***************************************************************************)
(* Termination of a call (SpecLive).                                        *)
(***************************************************************************)
\* The place of a control point in the one pass of a call.
Rank(p) ==
  CASE p = "idle"    -> 0
    [] p = "out_dir" -> 1
    [] p = "select"  -> 2
    [] p = "parse"   -> 3
    [] p = "patch"   -> 4
    [] p = "create"  -> 5
    [] p = "create2" -> 6
    [] p = "emit"    -> 7
    [] p = "done"    -> 8

Running == pc \notin { "idle", "done" }

\* C27: every call of generate_regs or generate_rest ends, in success or in
\* its first failure, after one pass select, parse, patch, open, emit: a call
\* that has begun reaches its end; every step of it moves to a later stage or
\* to the next step of the patch program, so that no stage is re-entered and
\* no step retried; the file is parsed at most once, the emitter called at
\* most once and no output file opened twice; and the steps that run are
\* those of the selected variant's program.
C27_OnePassThenEnds ==
  /\ [][/\ runs' = runs =>
             /\ Running
             /\ \/ Rank(pc') > Rank(pc)
                \/ /\ pc = "patch" /\ pc' = "patch"
                   /\ stepIx' = stepIx + 1
                   /\ stepIx' < Len(MatchArm(mcu).patch)
             /\ pc' = "done" => result' # "running"
             /\ pc' # "done" => result' = "running"
             /\ stepIx' # stepIx =>
                  /\ pc = "patch"
                  /\ dev' = ApplyStep(dev, MatchArm(mcu).patch[stepIx']).dev
        /\ runs' # runs => ~Running /\ pc' = "out_dir" /\ runs' = runs + 1
        /\ Len(parsedLog') <= 1
        /\ Len(emitLog') <= 1
        /\ \A i, j \in DOMAIN createdLog' : i # j => createdLog'[i] # createdLog'[j]
       ]_vars
  /\ (Running ~> pc = "done")

C27_Witness ==
  /\ mcu = "stm32l4x5"
  /\ runs = 2
  /\ pc = "done" /\ result = "ok" /\ op = "rest"
  /\ stepIx = Len(MatchArm(mcu).patch)
  /\ Len(parsedLog) = 1 /\ Len(emitLog) = 1 /\ Len(createdLog) = 2
  /\ Len(produced) = 2

(***************************************************************************)
(* One definition per port type; periph! against map_gpio_port (SpecSchema). *)
(***************************************************************************)
\* The invocations compiled so far under the key.
Compiling == { i \in 1..sIx : sKey \in Instantiations[i].cfg }

\* C28: under every variant key each port type GpioA .. GpioK, and each
\* extraction macro, is defined by at most one invocation: the guards of the
\* F1, L4 and F4 invocations of one port letter are pairwise disjoint, a type
\* and its macro always go together, and the tokens of a key carry pairwise
\* different types and macros.
C28_OneDefinitionPerPort ==
  /\ \A i, j \in DOMAIN Instantiations :
       i # j =>
         /\ Instantiations[i].port_ty = Instantiations[j].port_ty
              <=> Instantiations[i].port_macro = Instantiations[j].port_macro
         /\ Instantiations[i].port_ty = Instantiations[j].port_ty
              => Instantiations[i].cfg \cap Instantiations[j].cfg = {}
  /\ \A i, j \in Compiling :
       i # j => /\ Instantiations[i].port_ty # Instantiations[j].port_ty
                /\ Instantiations[i].port_macro # Instantiations[j].port_macro
  /\ Len(sTokens) = Cardinality(Compiling)
  /\ \A i, j \in DOMAIN sTokens :
       i # j => sTokens[i].ty # sTokens[j].ty /\ sTokens[i].macro # sTokens[j].macro

C28_Witness ==
  /\ sIx = Len(Instantiations)
  /\ sKey = "stm32l4x1"
  /\ Cardinality({ i \in DOMAIN Instantiations : Instantiations[i].port_ty = "GpioA" }) = 3
  /\ Cardinality({ i \in Compiling : Instantiations[i].port_ty = "GpioA" }) = 1
  /\ Cardinality(TokensOf("GpioA")) = 1
  /\ Len(sTokens) = Cardinality(Compiling)
  /\ Len(sTokens) > 4

\* The names of the generic fields of a register of periph!, and of one of
\* map_gpio_port!, in their order.
PeriphFieldNames(g) == [k \in DOMAIN g.fields |-> g.fields[k][1]]

\* The registers of periph!, and of the expansion of an invocation, whose
\* guard holds under key.
PeriphRegs(key) == { g \in Range(GpioPortPeriph) : CfgHolds(g.cfg, key) }

MapRegs(inst, key) == { r \in Range(map_gpio_port(inst)) : CfgHolds(r.cfg, key) }

\* What C29 says of one invocation under one key.
DeclaredAsMapped(inst, key) ==
  /\ { << g.block, g.name >> : g \in PeriphRegs(key) }
       = { << r.block, r.name >> : r \in MapRegs(inst, key) }
  /\ \A r \in MapRegs(inst, key) :
       /\ PeriphFieldNames(r) = PeriphFieldNames(GenericReg(r.block, r.name))
       /\ r.option = GenericReg(r.block, r.name).option
       /\ r.shared = GenericReg(r.block, r.name).shared
       /\ r.option <=> r.name = "ASCR"
       /\ r.mapped <=> (r.name = "ASCR" => inst.ascr = << "ASCR" >>)
  /\ inst.ascr # << >> <=>
       /\ inst.cfg \subseteq F4L4Keys \ { "stm32f401", "stm32f405", "stm32f407", "stm32f410",
                                          "stm32f411", "stm32f412", "stm32f413", "stm32f427",
                                          "stm32f429", "stm32f446", "stm32f469" }
       /\ inst.port_ty \in { "GpioA", "GpioB", "GpioC", "GpioD", "GpioE", "GpioF", "GpioG",
                             "GpioH" }

\* C29: under every variant key a register is declared in periph! exactly if
\* map_gpio_port! lists it, with the same generic field names and the same
\* markers; the one register an invocation may leave unmapped is the optional
\* ASCR, which is mapped exactly for the invocations that pass it, ports A to
\* H of the L4 family and never port I, so that a port's token holds every
\* declared register except an ASCR its invocation did not pass.
C29_DeclaredIffMapped ==
  \A i \in Compiling :
    /\ i = sIx => DeclaredAsMapped(Instantiations[i], sKey)
    /\ \E t \in Range(sTokens) :
         /\ t.ty = Instantiations[i].port_ty
         /\ { << r.block, r.name >> : r \in t.regs }
              = { << g.block, g.name >> :
                    g \in { x \in PeriphRegs(sKey) :
                              x.name = "ASCR" => Instantiations[i].ascr # << >> } }

C29_Witness ==
  /\ sIx = Len(Instantiations)
  /\ sKey = "stm32l4x6"
  /\ \E g \in PeriphRegs(sKey) : g.name = "ASCR"
  /\ \E t \in TokensOf("GpioH") : "ASCR" \in RegisterNames(t)
  /\ \E t \in TokensOf("GpioI") :
       /\ "ASCR" \notin RegisterNames(t)
       /\ Cardinality(t.regs) = Cardinality(PeriphRegs(sKey)) - 1

(***************************************************************************)
(* The two generator functions agree (Spec).                                *)
(***************************************************************************)
\* The <<peripheral, register>> pairs the index of a generate_rest run names,
\* and the peripherals its interrupt definitions name.
IndexOfRun(i) == UNION { produced[i].out[1].chunks[c].index : c \in DOMAIN produced[i].out[1].chunks }

InterruptPeriphsOfRun(i) ==
  UNION { produced[i].out[2].chunks[c].interrupts : c \in DOMAIN produced[i].out[2].chunks }

\* C30: generate_regs and generate_rest each select, parse and patch on
\* their own, and for one key and one vendor file they hand the emitter
\* equal Devices; so the index and the interrupt definitions of a
\* generate_rest run name exactly the peripherals and registers that the
\* register definitions of the generate_regs runs define.
C30_RegsAndRestAgree ==
  /\ (pc = "done" /\ result = "ok") =>
       /\ Len(parsedLog) = 1 /\ Len(emitLog) = 1
       /\ stepIx = Len(MatchArm(mcu).patch)
       /\ produced # << >>
       /\ produced[Len(produced)].dev = emitLog[1].dev
  /\ \A i, j \in DOMAIN produced : produced[i].dev = produced[j].dev
  /\ \A i, j \in DOMAIN produced :
       (produced[i].op = "regs" /\ produced[i].pool = << 1, 1 >> /\ produced[j].op = "rest") =>
         /\ IndexOfRun(j) = { << r[1], r[2] >> : r \in RegsEmitted({ i }) }
         /\ InterruptPeriphsOfRun(j) = { r[1] : r \in RegsEmitted({ i }) }
  /\ \A j \in DOMAIN produced :
       produced[j].op = "rest" =>
         \A size \in { 1, 2 } :
           { produced[i].pool[1] : i \in RegsRuns(size) } = 1..size =>
             IndexOfRun(j) = { << r[1], r[2] >> : r \in RegsEmitted(RegsRuns(size)) }

C30_Witness ==
  /\ mcu = "stm32l4x3"
  /\ pc = "done" /\ result = "ok"
  /\ Len(produced) = 2
  /\ produced[1].op = "rest" /\ produced[2].op = "regs" /\ produced[2].pool = << 1, 1 >>
  /\ "TIM3" \in InterruptPeriphsOfRun(1)
  /\ \E r \in RegsEmitted({ 2 }) : r[1] = "TIM3"
  /\ "TIM3" \notin DOMAIN parse_svd(MatchArm(mcu).file).dev
====
